---- MODULE Spec2Model ----
(***************************************************************************)
(* funee: the source graph builder (SourceGraph::load), the macro expander *)
(* (SourceGraph::expand_macros) and the emitter                            *)
(* (SourceGraph::into_js_execution_code).                                  *)
(*                                                                         *)
(* A build takes a request {scope, expression, host_functions, file        *)
(* loader}, walks the declarations reachable from the seed expression,     *)
(* and lowers the resulting graph to a flat list of statements.            *)
(***************************************************************************)
EXTENDS Integers, Sequences, FiniteSets, TLC

(***************************************************************************)
(* ASTs.  A term is a tagged tuple:                                        *)
(*   <<"lit", v>>            a literal                                     *)
(*   <<"id", sym, mark>>     an identifier occurrence; mark is TRUE once   *)
(*                           the resolver pass tagged it as unresolved     *)
(*   <<"call", callee, args>> a call, args a sequence of terms             *)
(*   <<"fn", params, body>>  a function binding the names in params        *)
(*   <<"add", l, r>>         a binary expression                           *)
(*   <<"mfn", behaviour, uses>> a macro function: its build-time behaviour *)
(*                           and the outer names its body mentions         *)
(***************************************************************************)
Lit(v) == <<"lit", v>>
Id(s) == <<"id", s, FALSE>>
Call(c, args) == <<"call", c, args>>
Fn(params, body) == <<"fn", params, body>>
Add(l, r) == <<"add", l, r>>
MacroFn(behaviour, uses) == <<"mfn", behaviour, uses>>

Range(s) == {s[i] : i \in DOMAIN s}

\* The names that occur free in a term: the contract of the resolver pass.
RECURSIVE FreeNames(_, _)
FreeNames(e, bound) ==
    CASE e[1] = "lit" -> {}
      [] e[1] = "id" -> IF e[2] \in bound THEN {} ELSE {e[2]}
      [] e[1] = "call" -> FreeNames(e[2], bound)
                          \cup UNION {FreeNames(e[3][i], bound) : i \in DOMAIN e[3]}
      [] e[1] = "fn" -> FreeNames(e[3], bound \cup Range(e[2]))
      [] e[1] = "add" -> FreeNames(e[2], bound) \cup FreeNames(e[3], bound)
      [] e[1] = "mfn" -> e[3] \ bound

\* swc's resolver(unresolved_mark, ..): tags every identifier that no binder
\* of the term binds with the unresolved mark.
RECURSIVE resolver(_, _)
resolver(e, bound) ==
    CASE e[1] = "lit" -> e
      [] e[1] = "id" -> IF e[2] \in bound THEN e ELSE <<"id", e[2], TRUE>>
      [] e[1] = "call" -> <<"call", resolver(e[2], bound),
                            [i \in DOMAIN e[3] |-> resolver(e[3][i], bound)]>>
      [] e[1] = "fn" -> <<"fn", e[2], resolver(e[3], bound \cup Range(e[2]))>>
      [] e[1] = "add" -> <<"add", resolver(e[2], bound), resolver(e[3], bound)>>
      [] e[1] = "mfn" -> e

\* ResolveReferences::visit_ident: the symbols of the identifiers that carry
\* the unresolved mark.
RECURSIVE ResolveReferences(_)
ResolveReferences(e) ==
    CASE e[1] = "lit" -> {}
      [] e[1] = "id" -> IF e[3] THEN {e[2]} ELSE {}
      [] e[1] = "call" -> ResolveReferences(e[2])
                          \cup UNION {ResolveReferences(e[3][i]) : i \in DOMAIN e[3]}
      [] e[1] = "fn" -> ResolveReferences(e[3])
      [] e[1] = "add" -> ResolveReferences(e[2]) \cup ResolveReferences(e[3])
      [] e[1] = "mfn" -> e[3]

\* a renamer that goes by the spelling of an identifier alone
RECURSIVE RenameReferences_by_spelling(_, _)
RenameReferences_by_spelling(e, to_replace) ==
    CASE e[1] = "lit" -> e
      [] e[1] = "id" -> IF e[2] \in DOMAIN to_replace
                        THEN <<"id", to_replace[e[2]], TRUE>>
                        ELSE e
      [] e[1] = "call" -> <<"call", RenameReferences_by_spelling(e[2], to_replace),
                            [i \in DOMAIN e[3] |->
                                RenameReferences_by_spelling(e[3][i], to_replace)]>>
      [] e[1] = "fn" -> <<"fn", e[2], RenameReferences_by_spelling(e[3], to_replace)>>
      [] e[1] = "add" -> <<"add", RenameReferences_by_spelling(e[2], to_replace),
                           RenameReferences_by_spelling(e[3], to_replace)>>
      [] e[1] = "mfn" -> e

\* RenameReferences::visit_mut_ident: an identifier that carries the
\* unresolved mark and whose symbol is a key of to_replace gets the new symbol.
RECURSIVE RenameReferences(_, _)
RenameReferences(e, to_replace) ==
    CASE e[1] = "lit" -> e
      [] e[1] = "id" -> IF e[3] /\ e[2] \in DOMAIN to_replace
                        THEN <<"id", to_replace[e[2]], TRUE>>
                        ELSE e
      [] e[1] = "call" -> <<"call", RenameReferences(e[2], to_replace),
                            [i \in DOMAIN e[3] |-> RenameReferences(e[3][i], to_replace)]>>
      [] e[1] = "fn" -> <<"fn", e[2], RenameReferences(e[3], to_replace)>>
      [] e[1] = "add" -> <<"add", RenameReferences(e[2], to_replace),
                           RenameReferences(e[3], to_replace)>>
      [] e[1] = "mfn" -> e

(***************************************************************************)
(* Identifiers and paths.  A URI is a sequence of path components; an      *)
(* absolute path starts with the component "/".  <<"funee">> is the        *)
(* synthetic standard-library module, <<>> the empty string.               *)
(***************************************************************************)
FuneeIdentifier(uri, name) == [uri |-> uri, name |-> name]

NoIdentifier == FuneeIdentifier(<<>>, "")

\* Path::parent
Parent(p) == SubSeq(p, 1, Len(p) - 1)

\* RelativePath::to_logical_path: "." is skipped, ".." pops a component of
\* the base (never the root), any other component is pushed.
RECURSIVE to_logical_path(_, _)
to_logical_path(rel, base) ==
    IF rel = <<>> THEN base
    ELSE LET c == Head(rel) IN
         to_logical_path(Tail(rel),
             IF c \in {".", "/"} THEN base
             ELSE IF c = ".." THEN (IF Len(base) > 1 THEN Parent(base) ELSE base)
             ELSE Append(base, c))

\* get_import_decl_uri: Path::new(current_uri).join(src), with the
\* current_uri "" that get_module_declarations passes.
get_import_decl_uri(current_uri, src) ==
    IF src # <<>> /\ Head(src) = "/" THEN src ELSE current_uri \o src

\* Path::to_str: the components joined by "/"
RECURSIVE to_str(_)
to_str(p) ==
    IF p = <<>> THEN ""
    ELSE IF Head(p) = "/" THEN "/" \o to_str(Tail(p))
    ELSE IF Len(p) = 1 THEN Head(p)
    ELSE Head(p) \o "/" \o to_str(Tail(p))

\* is_js_global (the enumeration, restricted to the names the modules use)
JsGlobals == {"Math", "console", "Promise", "JSON", "setTimeout"}

\* a name test that knows no global at all
is_js_global_none(name) == FALSE

is_js_global(name) == name \in JsGlobals

(***************************************************************************)
(* Declarations                                                            *)
(***************************************************************************)
NoAst == Lit("")

\* A declaration: its variant, its AST, the identifier an indirection
\* forwards to, the op name of a host function, and the place (module,
\* name) of the source text the AST was parsed from.
Declaration(kind, ast, target, op, site) ==
    [kind |-> kind, ast |-> ast, target |-> target, op |-> op, site |-> site]

NoSite == FuneeIdentifier(<<>>, "")

HostFn(op) == Declaration("HostFn", NoAst, NoIdentifier, op, NoSite)

ConcreteKinds == {"FnDecl", "FnExpr", "VarInit", "Macro"}

\* extract_macro_function: createMacro(<fn>, ..) yields <fn>
IsCreateMacro(init) ==
    /\ init[1] = "call"
    /\ init[2][1] = "id"
    /\ init[2][2] = "createMacro"
    /\ Len(init[3]) > 0

extract_macro_function(init) == init[3][1]

\* get_module_declarations_from_module_item: the (key, declaration) pairs of
\* one top-level item of the module at `uri` (uri only names the site of the
\* source text; the function itself is called with current_uri = "").
get_module_declarations_from_module_item(current_uri, item, uri) ==
    CASE item.form = "export_default_fn" ->
            {<<"default", Declaration("FnExpr", item.ast, NoIdentifier, "",
                                      FuneeIdentifier(uri, "default"))>>}
      [] item.form \in {"export_fn", "fn"} ->
            {<<item.name, Declaration("FnDecl", item.ast, NoIdentifier, "",
                                      FuneeIdentifier(uri, item.name))>>}
      [] item.form \in {"export_var", "var"} ->
            {<<item.name,
               IF IsCreateMacro(item.ast)
               THEN Declaration("Macro", extract_macro_function(item.ast),
                                NoIdentifier, "", FuneeIdentifier(uri, item.name))
               ELSE Declaration("VarInit", item.ast, NoIdentifier, "",
                                FuneeIdentifier(uri, item.name))>>}
      [] item.form = "export_default_expr" ->
            {<<"default", Declaration("VarInit", item.ast, NoIdentifier, "",
                                      FuneeIdentifier(uri, "default"))>>}
      [] item.form = "export_named" ->
            {<<item.exported,
               Declaration("FuneeIdentifier", NoAst,
                   FuneeIdentifier(IF item.has_src THEN item.src ELSE current_uri,
                                   item.orig),
                   "", NoSite)>>}
      [] item.form = "import" ->
            {<<item.local,
               Declaration("FuneeIdentifier", NoAst,
                   FuneeIdentifier(get_import_decl_uri(current_uri, item.src),
                                   item.imported),
                   "", NoSite)>>}
      [] item.form = "import_default" ->
            {<<item.local,
               Declaration("FuneeIdentifier", NoAst,
                   FuneeIdentifier(get_import_decl_uri(current_uri, item.src),
                                   "default"),
                   "", NoSite)>>}
      [] OTHER -> {}

\* get_module_declarations: HashMap::from_iter over the items in order, a
\* later item replacing an earlier one with the same key.
get_module_declarations(module, uri) ==
    LET pairs(i) == get_module_declarations_from_module_item(<<>>, module[i], uri)
        keys == {p[1] : p \in UNION {pairs(i) : i \in DOMAIN module}}
        last(k) == CHOOSE i \in DOMAIN module :
                      /\ \E p \in pairs(i) : p[1] = k
                      /\ \A j \in DOMAIN module :
                            (\E p \in pairs(j) : p[1] = k) => j <= i
    IN [k \in keys |-> (CHOOSE p \in pairs(last(k)) : p[1] = k)[2]]

\* Module items
Import(local, imported, src) ==
    [form |-> "import", local |-> local, imported |-> imported, src |-> src,
     name |-> "", orig |-> "", exported |-> "", has_src |-> TRUE, ast |-> NoAst]
ImportDefault(local, src) ==
    [form |-> "import_default", local |-> local, imported |-> "default", src |-> src,
     name |-> "", orig |-> "", exported |-> "", has_src |-> TRUE, ast |-> NoAst]
ExportFrom(orig, exported, src) ==
    [form |-> "export_named", local |-> "", imported |-> "", src |-> src,
     name |-> "", orig |-> orig, exported |-> exported, has_src |-> TRUE, ast |-> NoAst]
ExportLocal(orig, exported) ==
    [form |-> "export_named", local |-> "", imported |-> "", src |-> <<>>,
     name |-> "", orig |-> orig, exported |-> exported, has_src |-> FALSE, ast |-> NoAst]
Item(form, name, ast) ==
    [form |-> form, local |-> "", imported |-> "", src |-> <<>>,
     name |-> name, orig |-> "", exported |-> "", has_src |-> FALSE, ast |-> ast]

(***************************************************************************)
(* The requests a build is run on: a file system (path -> module items),   *)
(* a seed expression evaluated in the scope of the entry module, and a     *)
(* host-function set.                                                      *)
(***************************************************************************)
EntryPath == <<"/", "a.ts">>
LibB == <<"/", "lib", "b.ts">>
LibC == <<"/", "lib", "c.ts">>
RootC == <<"/", "c.ts">>
Funee == <<"funee">>

\* Candidate contents of /a.ts
EntryModules ==
    { \* import { f } from "./lib/b.ts"; export default () => f();
      << Import("f", "f", <<".", "lib", "b.ts">>),
         Item("export_default_expr", "", Fn(<<>>, Call(Id("f"), <<>>))),
         ExportFrom("x", "x", <<".", "lib", "b.ts">>) >>,
      \* import { log } from "funee"; import { f as g } from "./lib/b.ts";
      \* function Math() { return 0; }
      \* export default function () { g(); log(Math); }  export { x } from "./c.ts";
      << Import("log", "log", Funee),
         Import("g", "f", <<".", "lib", "b.ts">>),
         Item("fn", "Math", Fn(<<>>, Lit("0"))),
         Item("export_default_fn", "",
              Fn(<<>>, Add(Call(Id("g"), <<>>), Call(Id("log"), <<Id("Math")>>)))),
         ExportFrom("x", "x", <<".", "c.ts">>) >>,
      \* import { h as h1 } from "./lib/b.ts"; import { h as h2 } from "./lib/c.ts";
      \* import k from "./lib/c.ts"; function x(h1) { return h1 + k(); }
      \* export default () => h1() + h2();
      << Import("h1", "h", <<".", "lib", "b.ts">>),
         Import("h2", "h", <<".", "lib", "c.ts">>),
         ImportDefault("k", <<".", "lib", "c.ts">>),
         Item("fn", "x", Fn(<<"h1">>, Add(Id("h1"), Call(Id("k"), <<>>)))),
         Item("export_default_expr", "",
              Fn(<<>>, Add(Call(Id("h1"), <<>>), Call(Id("h2"), <<>>)))) >>,
      \* import { m } from "./lib/c.ts"; import { f } from "./lib/b.ts";
      \* const x = m(f(1)); const y = m(x); export default () => x + y;
      << Import("m", "m", <<".", "lib", "c.ts">>),
         Import("f", "f", <<".", "lib", "b.ts">>),
         Item("var", "x", Call(Id("m"), <<Call(Id("f"), <<Lit("1")>>)>>)),
         Item("var", "y", Call(Id("m"), <<Id("x")>>)),
         Item("export_default_expr", "", Fn(<<>>, Add(Id("x"), Id("y")))) >>,
      \* import { log, delayEcho } from "funee";
      \* export default () => log(delayEcho("hi"));
      << Import("log", "log", Funee),
         Import("delayEcho", "delayEcho", Funee),
         Item("export_default_expr", "",
              Fn(<<>>, Call(Id("log"), <<Call(Id("delayEcho"), <<Lit("hi")>>)>>))) >>,
      \* import { m } from "./lib/c.ts"; import { f } from "./lib/b.ts";
      \* const k = 7; const one = m(1); const viaK = m(k); const viaF = m(f);
      \* export default () => one + viaK + viaF;
      << Import("m", "m", <<".", "lib", "c.ts">>),
         Import("f", "f", <<".", "lib", "b.ts">>),
         Item("var", "k", Lit("7")),
         Item("var", "one", Call(Id("m"), <<Lit("1")>>)),
         Item("var", "viaK", Call(Id("m"), <<Id("k")>>)),
         Item("var", "viaF", Call(Id("m"), <<Id("f")>>)),
         Item("export_default_expr", "",
              Fn(<<>>, Add(Id("one"), Add(Id("viaK"), Id("viaF"))))) >>,
      \* import { m } from "./lib/c.ts"; import { x as y } from "./lib/b.ts";
      \* export default () => m(1) + y;  export { x } from "./lib/b.ts";
      << Import("m", "m", <<".", "lib", "c.ts">>),
         Import("y", "x", <<".", "lib", "b.ts">>),
         Item("export_default_expr", "", Fn(<<>>, Add(Call(Id("m"), <<Lit("1")>>), Id("y")))),
         ExportFrom("x", "x", <<".", "lib", "b.ts">>) >> }

\* Candidate contents of /lib/b.ts
LibBModules ==
    { \* export function f() { return 1; }  export const h = 2;
      << Item("export_fn", "f", Fn(<<>>, Lit("1"))),
         Item("export_var", "h", Lit("2")) >>,
      \* import { log } from "funee"; import { g } from "./c.ts";
      \* export function f() { log(g()); }
      \* export { x } from "./c.ts"; export { h } from "./c.ts";
      << Import("log", "log", Funee),
         Import("g", "g", <<".", "c.ts">>),
         Item("export_fn", "f", Fn(<<>>, Call(Id("log"), <<Call(Id("g"), <<>>)>>))),
         ExportFrom("x", "x", <<".", "c.ts">>),
         ExportFrom("h", "h", <<".", "c.ts">>) >>,
      \* export { x } from "../a.ts"; export { f } from "./c.ts";
      \* export { log as h } from "funee";
      << ExportFrom("x", "x", <<"..", "a.ts">>),
         ExportFrom("f", "f", <<".", "c.ts">>),
         ExportFrom("log", "h", Funee) >>,
      \* const a = 1; export { a as x };
      \* export function f() { return a + ((a) => a)(2); }
      << Item("var", "a", Lit("1")),
         ExportLocal("a", "x"),
         Item("export_fn", "f",
              Fn(<<>>, Add(Id("a"), Call(Fn(<<"a">>, Id("a")), <<Lit("2")>>)))) >> }

\* Candidate contents of /lib/c.ts
LibCModules ==
    { \* import { f } from "./b.ts"; export const x = 42;
      \* export function g() { return f(); }  export function h() { return x; }
      \* export default function () { return g(); }
      \* export const m = createMacro((c) => c);
      << Import("f", "f", <<".", "b.ts">>),
         Item("export_var", "x", Lit("42")),
         Item("export_fn", "g", Fn(<<>>, Call(Id("f"), <<>>))),
         Item("export_fn", "h", Fn(<<>>, Id("x"))),
         Item("export_default_fn", "", Fn(<<>>, Call(Id("g"), <<>>))),
         Item("export_var", "m",
              Call(Id("createMacro"), <<MacroFn("identity", {})>>)) >>,
      \* export { f } from "./b.ts"; export { x } from "/c.ts";
      \* const h = () => console; const m = createMacro((c) => `(${c}) + 1`);
      << ExportFrom("f", "f", <<".", "b.ts">>),
         ExportFrom("x", "x", <<"/", "c.ts">>),
         Item("var", "h", Fn(<<>>, Id("console"))),
         Item("var", "m",
              Call(Id("createMacro"), <<MacroFn("plus_one", {})>>)) >>,
      \* export const x = 1;
      \* export const m = createMacro((c) => ({ expression: `m(${c.expression})` }));
      << Item("export_var", "x", Lit("1")),
         Item("export_var", "m",
              Call(Id("createMacro"), <<MacroFn("wrap_self", {})>>)) >>,
      \* export const m = createMacro((c) => { throw new Error("no"); });
      << Item("export_var", "m",
              Call(Id("createMacro"), <<MacroFn("throws", {})>>)) >>,
      \* export const m = createMacro((c) => ({ expression: `${c.expression} +` }));
      << Item("export_var", "m",
              Call(Id("createMacro"), <<MacroFn("unparseable", {})>>)) >> }

\* /c.ts: export const x = 0;
RootCModule == << Item("export_var", "x", Lit("0")) >>

\* /funee: a user file that happens to be called like the synthetic module:
\* export function log() { return 0; }
RootFunee == <<"/", "funee">>
RootFuneeModule == << Item("export_fn", "log", Fn(<<>>, Lit("0"))) >>

Seeds == { Call(Id("default"), <<>>), Id("x") }

\* ExecutionRequest.host_functions: identifier -> the op it is configured
\* with (the name of the OpDecl), as in the tests it_works and async_ops_work
HostTables ==
    { <<>>,
      (FuneeIdentifier(Funee, "log") :> "op_log"),
      (FuneeIdentifier(Funee, "log") :> "op_log")
         @@ (FuneeIdentifier(Funee, "delayEcho") :> "op_delay_echo") }

\* host_functions: self.host_functions.keys().cloned().collect()
HostFunctionSets == { DOMAIN t : t \in HostTables }

FileSystems ==
    { (EntryPath :> a) @@ (LibB :> b) @@ (LibC :> c) @@ (RootC :> RootCModule)
        @@ (RootFunee :> RootFuneeModule) :
        <<a, b, c>> \in EntryModules \X LibBModules \X LibCModules }

\* load_declaration: load and parse the module at t.uri, extract its
\* declarations and take the one called t.name.
load_declaration(fs, t) ==
    LET module_declarations == get_module_declarations(fs[t.uri], t.uri)
    IN IF t.name \in DOMAIN module_declarations
       THEN <<"Some", module_declarations[t.name]>>
       ELSE <<"None", HostFn("")>>

(***************************************************************************)
(* State                                                                   *)
(***************************************************************************)
VARIABLES
    files,              \* the file loader: path -> module items
    host_functions,     \* LoadParams.host_functions
    pc,                 \* position of the build
    graph_nodes,        \* graph: NodeIndex -> (uri, declaration)
    graph_edges,        \* graph: edges (source, target, weight) in insertion order
    definitions_index,  \* FuneeIdentifier -> NodeIndex
    dfs_stack,          \* dfs.stack
    dfs_discovered,     \* dfs.discovered
    nx,                 \* the node SourceGraph::load is processing
    references,         \* the references of nx not iterated yet
    reference,          \* the reference being resolved: <<local name, identifier>>
    current_identifier, \* the identifier the resolution loop looks up next
    error,              \* the panic that ended the build
    trail,              \* history of the current resolution: the identifiers
                        \* looked up, the identifiers met as written, and the
                        \* steps <<from, indirection as written, to>>
    written,            \* history: current_identifier as the module text spells it
    load_requests,      \* history: the loads asked of the file loader, each with
                        \* the identifier as written and the identifier loaded
    node_origin,        \* history: NodeIndex -> the trail that produced the node
    expand_at,          \* expand_macros: the next node of `nodes` to look at
    po_stack,           \* DfsPostOrder.stack
    po_discovered,      \* DfsPostOrder.discovered
    po_finished,        \* DfsPostOrder.finished
    module_items,       \* the statements lowered so far
    emitted_from,       \* history: for each statement, the declaration it was
                        \* lowered from and the rename map that was applied
    op_table,           \* ExecutionRequest.host_functions: identifier -> op name
    expanded,           \* history: NodeIndex -> the macro call expand_macros
                        \* replaced and the expression it put in its place
    macro_failed,       \* history: the nodes whose macro call gave None
    runtime_declared,   \* MacroRuntime.runtime: the global scope of the JsRuntime
                        \* already holds the let/const bindings of the macro script
    visits,             \* history: the nodes the loop body of load ran on, in order
    max_iterations,     \* execute_macro: __max_iterations
    other_macros,       \* execute_macro: the names of the sibling macros
    call_plan,          \* the sibling invocations the macro bodies go on to make
    macro_call_count,   \* execute_macro: __macro_call_count
    macro_status,       \* position of one execute_macro call
    invocation_log,     \* history: the wrappers invoked, in order
    bodies_run,         \* history: the wrappers that went on to run __inner
    plan_at_start,      \* history: call_plan when the call was made
    calls_made,         \* history: the execute_macro calls made on the runtime
    force_reload,       \* HttpFileLoader.force_reload
    overflow_checks,    \* the build profile: arithmetic overflow panics or wraps
    now,                \* SystemTime::now(), seconds since the epoch
    cache_file,         \* cache_dir: url -> content of the cached module
    metadata_file,      \* cache_dir: url -> cached_at of metadata.json
    last_read,          \* history: the last read_file served, with what held before it
    NEXT_TIMER_ID,      \* the id op_timerStart hands out next
    TIMER_CANCELLERS,   \* the timer ids that hold a cancellation sender
    waits,              \* timer id -> the op_timerWait future called with it
    timerCallbacks,     \* TIMER_BOOTSTRAP: timer id -> entry of the callback registry
    intervals,          \* interval id -> active, currentTimerId and the position
                        \* of scheduleNext
    issued,             \* history: timer id -> what asked op_timerStart for it
    invocations,        \* history: timer id -> how often its callback was invoked
    clear_called,       \* history: the ids clearTimeout / clearInterval was called
                        \* with, a timeout id or an interval id respectively
    cancelled,          \* history: the ids op_timerCancel returned true for
    last_cancel         \* history: the last op_timerCancel call, with the state
                        \* of the wait it found

load_vars == <<files, host_functions, pc, graph_nodes, graph_edges,
               definitions_index, dfs_stack, dfs_discovered, nx, references,
               reference, current_identifier, error, trail, written,
               load_requests, node_origin>>

load_vars_but_pc == <<files, host_functions, graph_edges, definitions_index,
                      dfs_stack, dfs_discovered, nx, references, reference,
                      current_identifier, error, trail, written, load_requests,
                      node_origin>>

emit_vars == <<expand_at, po_stack, po_discovered, po_finished, module_items,
               emitted_from>>

more_vars == <<op_table, expanded, macro_failed, runtime_declared, visits>>

macro_vars == <<max_iterations, other_macros, call_plan, macro_call_count,
                macro_status, invocation_log, bodies_run, plan_at_start,
                calls_made>>

http_vars == <<force_reload, overflow_checks, now, cache_file, metadata_file,
               last_read>>

timer_vars == <<NEXT_TIMER_ID, TIMER_CANCELLERS, waits, timerCallbacks, intervals,
                issued, invocations, clear_called, cancelled, last_cancel>>

vars == <<load_vars, emit_vars, more_vars, macro_vars, http_vars, timer_vars>>

root == 0

NoError == [kind |-> "", id |-> NoIdentifier]

node_count == Cardinality(DOMAIN graph_nodes)

Node(uri, declaration) == [uri |-> uri, declaration |-> declaration]

\* an edge that does not keep the name it stands for
Edge_unlabelled(source, target, weight) == [source |-> source, target |-> target, weight |-> ""]

Edge(source, target, weight) == [source |-> source, target |-> target, weight |-> weight]

\* Graph::add_node: the new node gets the next index
add_node(nodes, weight) ==
    LET n == Cardinality(DOMAIN nodes)
    IN [i \in 0..n |-> IF i < n THEN nodes[i] ELSE weight]

Reverse(s) == [i \in DOMAIN s |-> s[Len(s) + 1 - i]]

\* the walk taken against the edges: the sources of the incoming edges
neighbors_incoming(edges, n) ==
    LET inc == SelectSeq(edges, LAMBDA e : e.target = n)
    IN Reverse([i \in DOMAIN inc |-> inc[i].source])

\* Graph::neighbors: the targets of the outgoing edges, newest edge first
neighbors(edges, n) ==
    LET out == SelectSeq(edges, LAMBDA e : e.source = n)
    IN Reverse([i \in DOMAIN out |-> out[i].target])

\* HashSet::get(&id).unwrap().name
host_name(id) == (CHOOSE h \in host_functions : h = id).name

\* get_references_from_declaration on the variants it lists
get_references_from_declaration(decl) ==
    CASE decl.kind \in {"FnDecl", "FnExpr", "Expr"} ->
            ResolveReferences(resolver(decl.ast, {}))
      [] decl.kind \in {"FuneeIdentifier", "HostFn"} -> {}

\* the same pass on a variable initializer or a macro function
get_references_from_initializer(decl) == ResolveReferences(resolver(decl.ast, {}))

\* the declaration as the resolver pass leaves it (the pass mutates the AST)
resolved_declaration(decl) ==
    IF decl.kind \in {"FuneeIdentifier", "HostFn"} THEN decl
    ELSE [decl EXCEPT !.ast = resolver(decl.ast, {})]

\* The name -> identifier map built for node n at the top of the loop body
node_references(n) ==
    LET t == graph_nodes[n].uri
        declaration == graph_nodes[n].declaration
    IN IF declaration.kind = "FuneeIdentifier"
       THEN {<<to_str(t), declaration.target>>}
       ELSE LET names == IF declaration.kind \in {"VarInit", "Macro"}
                         THEN get_references_from_initializer(declaration)
                         ELSE get_references_from_declaration(declaration)
            IN {<<x, FuneeIdentifier(t, x)>> : x \in names}

\* no execute_macro call is being stepped through
MacroIdle ==
    /\ max_iterations = 0
    /\ other_macros = {}
    /\ call_plan = <<>>
    /\ macro_call_count = 0
    /\ macro_status = "idle"
    /\ invocation_log = <<>>
    /\ bodies_run = 0
    /\ plan_at_start = <<>>
    /\ calls_made = 0

\* no read_file call was served yet
NoRead == [path |-> "", outcome |-> "none", response |-> "none"]

\* no HttpFileLoader is being exercised
HttpIdle ==
    /\ force_reload = FALSE
    /\ overflow_checks = FALSE
    /\ now = 0
    /\ cache_file = <<>>
    /\ metadata_file = <<>>
    /\ last_read = NoRead

\* the timer ids a run hands out
MaxTimers == 3

TimerIds == 1..MaxTimers

\* op_timerWait was not called with the id
NoWait == [stage |-> "none", elapsed |-> FALSE, signalled |-> FALSE, completed |-> FALSE]

\* timerCallbacks.get(timerId) === undefined
NoTimer == [type |-> "none", cleared |-> FALSE]

\* setInterval did not return the id
NoInterval == [active |-> FALSE, currentTimerId |-> 0, at |-> "none"]

\* op_timerCancel was not called yet
NoCancel == [timer_id |-> 0, result |-> FALSE, wait |-> "none"]

\* the process and the bootstrapped runtime before any timer was set
TimerIdle ==
    /\ NEXT_TIMER_ID = 1
    /\ TIMER_CANCELLERS = {}
    /\ waits = [id \in TimerIds |-> NoWait]
    /\ timerCallbacks = [id \in TimerIds |-> NoTimer]
    /\ intervals = [id \in TimerIds |-> NoInterval]
    /\ issued = [id \in TimerIds |-> "none"]
    /\ invocations = [id \in TimerIds |-> 0]
    /\ clear_called = {}
    /\ cancelled = {}
    /\ last_cancel = NoCancel

Init ==
    /\ TimerIdle
    /\ files \in FileSystems
    /\ host_functions \in HostFunctionSets
    /\ op_table \in {t \in HostTables : DOMAIN t = host_functions}
    /\ expanded = <<>>
    /\ macro_failed = {}
    /\ runtime_declared = FALSE
    /\ visits = <<>>
    /\ MacroIdle
    /\ HttpIdle
    /\ \E expression \in Seeds :
          graph_nodes = [i \in {root} |->
              Node(EntryPath, Declaration("Expr", expression, NoIdentifier, "",
                                          FuneeIdentifier(EntryPath, "")))]
    /\ graph_edges = <<>>
    /\ definitions_index = <<>>
    /\ dfs_stack = <<root>>
    /\ dfs_discovered = {}
    /\ pc = "dfs"
    /\ nx = root
    /\ references = {}
    /\ reference = <<"", NoIdentifier>>
    /\ current_identifier = NoIdentifier
    /\ error = NoError
    /\ trail = [looked_up |-> {}, targets |-> {}, links |-> {}]
    /\ written = NoIdentifier
    /\ load_requests = {}
    /\ node_origin = <<>>
    /\ expand_at = 0
    /\ po_stack = <<>>
    /\ po_discovered = {}
    /\ po_finished = {}
    /\ module_items = <<>>
    /\ emitted_from = <<>>

\* while let Some(nx) = dfs.next(&graph): pop until an undiscovered node
\* comes up, push its undiscovered neighbours, and compute its references.
DfsNext ==
    /\ pc = "dfs"
    /\ UNCHANGED <<op_table, expanded, macro_failed, runtime_declared>>
    /\ UNCHANGED <<macro_vars, http_vars, timer_vars>>
    /\ dfs_stack # <<>>
    /\ UNCHANGED emit_vars
    /\ LET node == dfs_stack[Len(dfs_stack)]
           rest == SubSeq(dfs_stack, 1, Len(dfs_stack) - 1)
       IN IF node \notin dfs_discovered
          THEN /\ dfs_discovered' = dfs_discovered \cup {node}
               /\ dfs_stack' = rest \o SelectSeq(neighbors(graph_edges, node),
                                         LAMBDA m : m \notin dfs_discovered \cup {node})
               /\ nx' = node
               /\ visits' = Append(visits, node)
               /\ references' = node_references(node)
               /\ graph_nodes' = [graph_nodes EXCEPT ![node].declaration =
                                     resolved_declaration(@)]
               /\ pc' = "references"
          ELSE /\ dfs_stack' = rest
               /\ UNCHANGED <<dfs_discovered, nx, references, graph_nodes, pc, visits>>
    /\ UNCHANGED <<files, host_functions, graph_edges, definitions_index, reference,
                   current_identifier, error, trail, written, load_requests,
                   node_origin>>

\* dfs.next returns None: the graph is complete
DfsDone ==
    /\ pc = "dfs"
    /\ UNCHANGED more_vars
    /\ UNCHANGED <<macro_vars, http_vars, timer_vars>>
    /\ dfs_stack = <<>>
    /\ pc' = "loaded"
    /\ UNCHANGED emit_vars
    /\ UNCHANGED <<files, host_functions, graph_nodes, graph_edges, definitions_index,
                   dfs_stack, dfs_discovered, nx, references, reference,
                   current_identifier, error, trail, written, load_requests,
                   node_origin>>

\* a host-function set that is never consulted
contains_host_never(id) == FALSE

\* host_functions.contains(&id)
contains_host(id) == id \in host_functions

\* the host function called after the module instead of the entry's name
host_declaration_by_uri(id) == HostFn(to_str(id.uri))

\* Declaration::HostFn(host_functions.get(&id).unwrap().name.clone())
host_declaration(id) == HostFn(host_name(id))

\* a loop that breaks on the first declaration it loads, indirection or not
is_indirection_never(declaration) == FALSE

\* if let Declaration::FuneeIdentifier(i) = declaration
is_indirection(declaration) == declaration.kind = "FuneeIdentifier"

\* Path::new(&current_identifier.uri).parent()
current_dir(current) == Parent(current.uri)

\* the identifier the loop continues with: i, its uri made relative to the
\* directory of the module that contains the indirection
next_identifier(current, i) ==
    FuneeIdentifier(to_logical_path(i.uri, current_dir(current)), i.name)

\* the uri of the reference as first written, not of the module reached
resolved_uri_tentative(ref, current) == ref[2].uri

\* break (declaration, current_identifier.uri.clone())
resolved_uri(ref, current) == current.uri

\* the message naming the identifier the loop started from
missing_declaration_start(ref, current) == ref[2]

\* the identifier named by "Could not find declaration for <uri>:<name>"
missing_declaration(ref, current) == current

\* the key under which definitions_index records the node of a reference
index_key(ref) == ref[2]

\* a construction that pushes the node of a reference whether or not the
\* index already records it
Insert_repush(ref, declaration, uri, origin) ==
    IF index_key(ref) \notin DOMAIN definitions_index
    THEN LET node_index == node_count
         IN /\ graph_nodes' = add_node(graph_nodes, Node(uri, declaration))
            /\ graph_edges' = Append(graph_edges, Edge(nx, node_index, ref[1]))
            /\ definitions_index' = (index_key(ref) :> node_index) @@ definitions_index
            /\ dfs_stack' = Append(dfs_stack, node_index)
            /\ node_origin' = (node_index :> origin) @@ node_origin
    ELSE /\ graph_edges' = Append(graph_edges,
                                  Edge(nx, definitions_index[index_key(ref)], ref[1]))
         /\ dfs_stack' = Append(dfs_stack, definitions_index[index_key(ref)])
         /\ UNCHANGED <<graph_nodes, definitions_index, node_origin>>

\* Lines 174-186: the node for `ref` holding (uri, declaration)
Insert(ref, declaration, uri, origin) ==
    IF index_key(ref) \notin DOMAIN definitions_index
    THEN LET node_index == node_count
         IN /\ graph_nodes' = add_node(graph_nodes, Node(uri, declaration))
            /\ graph_edges' = Append(graph_edges, Edge(nx, node_index, ref[1]))
            /\ definitions_index' = (index_key(ref) :> node_index) @@ definitions_index
            /\ dfs_stack' = IF node_index \notin dfs_discovered
                            THEN Append(dfs_stack, node_index)
                            ELSE dfs_stack
            /\ node_origin' = (node_index :> origin) @@ node_origin
    ELSE /\ graph_edges' = Append(graph_edges,
                                  Edge(nx, definitions_index[index_key(ref)], ref[1]))
         /\ UNCHANGED <<graph_nodes, definitions_index, dfs_stack, node_origin>>

\* for reference in references: a JS global is skipped
SkipGlobal ==
    /\ pc = "references"
    /\ UNCHANGED more_vars
    /\ UNCHANGED <<macro_vars, http_vars, timer_vars>>
    /\ UNCHANGED emit_vars
    /\ \E ref \in references :
          /\ is_js_global(ref[1])
          /\ references' = references \ {ref}
    /\ UNCHANGED <<files, host_functions, pc, graph_nodes, graph_edges,
                   definitions_index, dfs_stack, dfs_discovered, nx, reference,
                   current_identifier, error, trail, written, load_requests,
                   node_origin>>

NoTrail == [looked_up |-> {}, targets |-> {}, links |-> {}]

\* for reference in references: the tentative identifier is a host function
\* (line 121), or the resolution loop is entered (line 134)
StartReference ==
    /\ pc = "references"
    /\ UNCHANGED more_vars
    /\ UNCHANGED <<macro_vars, http_vars, timer_vars>>
    /\ UNCHANGED emit_vars
    /\ \E ref \in references :
          /\ ~is_js_global(ref[1])
          /\ references' = references \ {ref}
          /\ reference' = ref
          /\ trail' = [NoTrail EXCEPT !.targets = {ref[2]}]
          /\ IF contains_host(ref[2])
             THEN /\ Insert(ref, host_declaration(ref[2]), ref[2].uri,
                            [start |-> ref[2], targets |-> {ref[2]}, links |-> {}])
                  /\ UNCHANGED <<pc, current_identifier, written>>
             ELSE /\ current_identifier' = ref[2]
                  /\ written' = ref[2]
                  /\ pc' = "resolve"
                  /\ UNCHANGED <<graph_nodes, graph_edges, definitions_index,
                                 dfs_stack, node_origin>>
    /\ UNCHANGED <<files, host_functions, dfs_discovered, nx, error, load_requests>>

\* all references of nx are done: back to dfs.next
ReferencesDone ==
    /\ pc = "references"
    /\ UNCHANGED more_vars
    /\ UNCHANGED <<macro_vars, http_vars, timer_vars>>
    /\ references = {}
    /\ pc' = "dfs"
    /\ UNCHANGED emit_vars
    /\ UNCHANGED <<files, host_functions, graph_nodes, graph_edges, definitions_index,
                   dfs_stack, dfs_discovered, nx, references, reference,
                   current_identifier, error, trail, written, load_requests,
                   node_origin>>

\* One turn of the resolution loop (lines 135-171)
Resolve ==
    /\ pc = "resolve"
    /\ UNCHANGED more_vars
    /\ UNCHANGED <<macro_vars, http_vars, timer_vars>>
    /\ UNCHANGED emit_vars
    /\ load_requests' = load_requests \cup
           {[written |-> written, loaded |-> current_identifier]}
    /\ IF current_identifier.uri \notin DOMAIN files
       THEN \* load_module: cm.load_file(&path).unwrap()
            /\ pc' = "failed"
            /\ error' = [kind |-> "IO", id |-> current_identifier]
            /\ trail' = [trail EXCEPT !.looked_up = @ \cup {current_identifier}]
            /\ UNCHANGED <<graph_nodes, graph_edges, definitions_index, dfs_stack,
                           node_origin, current_identifier, written>>
       ELSE LET loaded == load_declaration(files, current_identifier)
                declaration == loaded[2]
                i == declaration.target
                origin(tr) == [start |-> reference[2], targets |-> tr.targets,
                               links |-> tr.links]
            IN IF loaded[1] = "None"
               THEN \* .expect("Could not find declaration for <uri>:<name>")
                    /\ pc' = "failed"
                    /\ error' = [kind |-> "UnresolvedReference",
                                 id |-> missing_declaration(reference, current_identifier)]
                    /\ trail' = [trail EXCEPT !.looked_up = @ \cup {current_identifier}]
                    /\ UNCHANGED <<graph_nodes, graph_edges, definitions_index,
                                   dfs_stack, node_origin, current_identifier,
                                   written>>
               ELSE IF is_indirection(declaration)
               THEN IF contains_host(i)
                    THEN /\ trail' = [trail EXCEPT
                                !.looked_up = @ \cup {current_identifier},
                                !.targets = @ \cup {i}]
                         /\ Insert(reference, host_declaration(i),
                                   current_identifier.uri, origin(trail'))
                         /\ pc' = "references"
                         /\ UNCHANGED <<error, current_identifier, written>>
                    ELSE /\ written' = i
                         /\ current_identifier' = next_identifier(current_identifier, i)
                         /\ trail' = [trail EXCEPT
                                !.looked_up = @ \cup {current_identifier},
                                !.targets = @ \cup {i},
                                !.links = @ \cup {<<current_identifier, i,
                                                    current_identifier'>>}]
                         /\ UNCHANGED <<pc, error, graph_nodes, graph_edges,
                                        definitions_index, dfs_stack, node_origin>>
               ELSE /\ trail' = [trail EXCEPT !.looked_up = @ \cup {current_identifier}]
                    /\ Insert(reference, declaration,
                              resolved_uri(reference, current_identifier),
                              origin(trail'))
                    /\ pc' = "references"
                    /\ UNCHANGED <<error, current_identifier, written>>
    /\ UNCHANGED <<files, host_functions, dfs_discovered, nx, references, reference>>

(***************************************************************************)
(* Macro expansion (SourceGraph::expand_macros)                            *)
(***************************************************************************)
\* edge_targets: (source, label) -> target, a later edge replacing an earlier
\* one with the same key
has_edge_target(source, label) ==
    \E i \in DOMAIN graph_edges :
        graph_edges[i].source = source /\ graph_edges[i].weight = label

edge_targets(source, label) ==
    LET last == CHOOSE i \in DOMAIN graph_edges :
                   /\ graph_edges[i].source = source
                   /\ graph_edges[i].weight = label
                   /\ \A j \in DOMAIN graph_edges :
                         (graph_edges[j].source = source
                          /\ graph_edges[j].weight = label) => j <= i
    IN graph_edges[last].target

\* expr_to_code: the text of an expression; marks are not part of the text
RECURSIVE expr_to_code(_)
expr_to_code(e) ==
    CASE e[1] = "lit" -> e
      [] e[1] = "id" -> <<"id", e[2], FALSE>>
      [] e[1] = "call" -> <<"call", expr_to_code(e[2]),
                            [i \in DOMAIN e[3] |-> expr_to_code(e[3][i])]>>
      [] e[1] = "fn" -> <<"fn", e[2], expr_to_code(e[3])>>
      [] e[1] = "add" -> <<"add", expr_to_code(e[2]), expr_to_code(e[3])>>
      [] e[1] = "mfn" -> e

\* parse_expr: Some(fresh AST, no identifier marked) or None
parse_expr(code) ==
    IF code[1] \in {"lit", "id", "call", "fn", "add", "mfn"}
    THEN <<"Some", code>>
    ELSE <<"None", NoAst>>

\* MacroRuntime::execute_macro: run the script that calls the macro function
\* on the argument closures; Ok(expression) or Err.  The script declares
\* __macro_call_count, __max_iterations, __macro_fn, ... with let/const at its
\* top level and is run by execute_script on self.runtime: once one such
\* script ran on the runtime (`declared`), the next one is rejected with
\* "Identifier '__macro_call_count' has already been declared".
execute_macro(declared, macro_fn_code, args) ==
    CASE declared -> <<"Err", NoAst>>
      [] macro_fn_code[1] = "mfn" /\ macro_fn_code[2] = "identity" /\ Len(args) > 0 ->
            <<"Ok", args[1]>>
      [] macro_fn_code[1] = "mfn" /\ macro_fn_code[2] = "plus_one" /\ Len(args) > 0 ->
            <<"Ok", Add(args[1], Lit("1"))>>
      [] macro_fn_code[1] = "mfn" /\ macro_fn_code[2] = "wrap_self" /\ Len(args) > 0 ->
            <<"Ok", Call(Id("m"), <<args[1]>>)>>
      [] macro_fn_code[1] = "mfn" /\ macro_fn_code[2] = "unparseable" /\ Len(args) > 0 ->
            <<"Ok", <<"text", "+">> >>
      [] OTHER -> <<"Err", NoAst>>

\* execute_macro_call: lower the arguments, run the macro, parse the result
execute_macro_call(source_node, macro_node, call_expr) ==
    LET macro_fn_code == expr_to_code(graph_nodes[macro_node].declaration.ast)
        arg_code(arg) ==
            IF arg[1] = "id" /\ has_edge_target(source_node, arg[2])
            THEN LET target == graph_nodes[edge_targets(source_node, arg[2])].declaration
                 IN IF target.kind \in {"VarInit", "FnExpr", "Expr"}
                    THEN expr_to_code(target.ast)
                    ELSE expr_to_code(arg)
            ELSE expr_to_code(arg)
        args == [i \in DOMAIN call_expr[3] |-> arg_code(call_expr[3][i])]
        result == execute_macro(runtime_declared, macro_fn_code, args)
    IN IF result[1] = "Ok" THEN parse_expr(result[2]) ELSE <<"None", NoAst>>

\* the test of lines 88-98: a variable initializer that is a call of an
\* identifier whose edge leads to a macro
is_macro_call(n) ==
    LET declaration == graph_nodes[n].declaration
        expr == declaration.ast
    IN /\ declaration.kind = "VarInit"
       /\ expr[1] = "call"
       /\ expr[2][1] = "id"
       /\ has_edge_target(n, expr[2][2])
       /\ graph_nodes[edge_targets(n, expr[2][2])].declaration.kind = "Macro"

\* into_js_execution_code starts: expand_macros collects the nodes
StartExpand ==
    /\ pc = "loaded"
    /\ UNCHANGED more_vars
    /\ UNCHANGED <<macro_vars, http_vars, timer_vars>>
    /\ pc' = "expand"
    /\ expand_at' = 0
    /\ UNCHANGED load_vars_but_pc
    /\ UNCHANGED <<graph_nodes, po_stack, po_discovered, po_finished, module_items,
                   emitted_from>>

\* for nx in nodes: one turn of the loop of expand_macros
ExpandNode ==
    /\ pc = "expand"
    /\ UNCHANGED <<op_table, visits>>
    /\ UNCHANGED <<macro_vars, http_vars, timer_vars>>
    /\ expand_at < node_count
    /\ expand_at' = expand_at + 1
    /\ IF is_macro_call(expand_at)
       THEN LET expr == graph_nodes[expand_at].declaration.ast
                macro_node == edge_targets(expand_at, expr[2][2])
                result == execute_macro_call(expand_at, macro_node, expr)
            IN /\ runtime_declared' = TRUE
               /\ IF result[1] = "Some"
                  THEN /\ graph_nodes' = [graph_nodes EXCEPT
                              ![expand_at].declaration.kind = "VarInit",
                              ![expand_at].declaration.ast = result[2]]
                       /\ expanded' = (expand_at :>
                              [call |-> expr,
                               macro |-> graph_nodes[macro_node].declaration.ast,
                               result |-> result[2]]) @@ expanded
                       /\ UNCHANGED macro_failed
                  ELSE /\ macro_failed' = macro_failed \cup {expand_at}
                       /\ UNCHANGED <<graph_nodes, expanded>>
       ELSE UNCHANGED <<graph_nodes, expanded, macro_failed, runtime_declared>>
    /\ UNCHANGED load_vars_but_pc
    /\ UNCHANGED <<pc, po_stack, po_discovered, po_finished, module_items,
                   emitted_from>>

\* expand_macros returns; DfsPostOrder::new(&self.graph, self.root)
StartEmit ==
    /\ pc = "expand"
    /\ UNCHANGED more_vars
    /\ UNCHANGED <<macro_vars, http_vars, timer_vars>>
    /\ expand_at = node_count
    /\ pc' = "emit"
    /\ po_stack' = <<root>>
    /\ po_discovered' = {}
    /\ po_finished' = {}
    /\ UNCHANGED load_vars_but_pc
    /\ UNCHANGED <<graph_nodes, expand_at, module_items, emitted_from>>

(***************************************************************************)
(* Emission (SourceGraph::into_js_execution_code)                          *)
(***************************************************************************)
\* one name for every node
declaration_name_shared(index) == "declaration_" \o ToString(0)

\* format!("declaration_{}", index)
declaration_name(index) == "declaration_" \o ToString(index)

\* to_replace: the outgoing edges of n, newest first, collected into a map
\* (a later pair replaces an earlier one, so the oldest edge of a label wins)
to_replace(n) ==
    LET out == {i \in DOMAIN graph_edges : graph_edges[i].source = n}
        labels == {graph_edges[i].weight : i \in out}
        oldest(l) == CHOOSE i \in out :
                        /\ graph_edges[i].weight = l
                        /\ \A j \in out : graph_edges[j].weight = l => i <= j
    IN [l \in labels |-> declaration_name(graph_edges[oldest(l)].target)]

\* rename_references_in_declaration on the variants it lists
rename_references_in_declaration(decl, map) ==
    CASE decl.kind \in {"FnDecl", "FnExpr", "Expr"} ->
            [decl EXCEPT !.ast = RenameReferences(decl.ast, map)]
      [] decl.kind \in {"FuneeIdentifier", "HostFn"} -> decl

\* the same rewrite on a variable initializer
rename_references_in_initializer(decl, map) ==
    [decl EXCEPT !.ast = RenameReferences(decl.ast, map)]

\* Declaration::into_module_item(name)
into_module_item(decl, name) ==
    CASE decl.kind \in {"FnDecl", "FnExpr"} ->
            [stmt |-> "function", name |-> name, ast |-> decl.ast, op |-> ""]
      [] decl.kind = "Expr" ->
            [stmt |-> "expression", name |-> "", ast |-> decl.ast, op |-> ""]
      [] decl.kind = "VarInit" ->
            [stmt |-> "var", name |-> name, ast |-> decl.ast, op |-> ""]
      [] decl.kind = "HostFn" ->
            [stmt |-> "function", name |-> name,
             ast |-> Fn(<<"args">>,
                        Call(Id("Deno.core.ops.op_" \o decl.op), <<Id("args")>>)),
             op |-> "op_" \o decl.op]
      [] OTHER -> \* unreachable!()
            [stmt |-> "unreachable", name |-> name, ast |-> decl.ast, op |-> ""]

\* an emitter that also leaves out the expression statements
skips_expression(declaration) == declaration.kind \in {"Macro", "ClosureValue", "Expr"}

\* a declaration that is only there for build time
skips_none(declaration) == FALSE

\* matches!(declaration, Declaration::Macro(_)) and
\* matches!(declaration, Declaration::ClosureValue(_)): continue
skips(declaration) == declaration.kind \in {"Macro", "ClosureValue"}

\* One turn of the loop inside DfsPostOrder::next; when it returns a node,
\* the body of the while loop of into_js_execution_code runs on it.
PostOrderVisit ==
    /\ pc = "emit"
    /\ UNCHANGED more_vars
    /\ UNCHANGED <<macro_vars, http_vars, timer_vars>>
    /\ po_stack # <<>>
    /\ LET node == po_stack[Len(po_stack)]
       IN /\ node \notin po_discovered
          /\ po_discovered' = po_discovered \cup {node}
          /\ po_stack' = po_stack \o SelectSeq(neighbors(graph_edges, node),
                                      LAMBDA m : m \notin po_discovered \cup {node})
    /\ UNCHANGED load_vars_but_pc
    /\ UNCHANGED <<pc, graph_nodes, expand_at, po_finished, module_items, emitted_from>>

PostOrderFinish ==
    /\ pc = "emit"
    /\ UNCHANGED more_vars
    /\ UNCHANGED <<macro_vars, http_vars, timer_vars>>
    /\ po_stack # <<>>
    /\ LET node == po_stack[Len(po_stack)]
           declaration == graph_nodes[node].declaration
           renamed == IF declaration.kind \in {"VarInit", "Macro"}
                      THEN rename_references_in_initializer(declaration, to_replace(node))
                      ELSE rename_references_in_declaration(declaration, to_replace(node))
       IN /\ node \in po_discovered
          /\ po_stack' = SubSeq(po_stack, 1, Len(po_stack) - 1)
          /\ po_finished' = po_finished \cup {node}
          /\ IF node \in po_finished \/ skips(declaration)
             THEN UNCHANGED <<module_items, emitted_from>>
             ELSE /\ module_items' = Append(module_items,
                         into_module_item(renamed, declaration_name(node)))
                  /\ emitted_from' = Append(emitted_from,
                         [node |-> node, declaration |-> declaration,
                          to_replace |-> to_replace(node)])
    /\ UNCHANGED load_vars_but_pc
    /\ UNCHANGED <<pc, graph_nodes, expand_at, po_discovered>>

\* dfs.next returns None: the module is emitted and returned as the bundle
EmitDone ==
    /\ pc = "emit"
    /\ UNCHANGED more_vars
    /\ UNCHANGED <<macro_vars, http_vars, timer_vars>>
    /\ po_stack = <<>>
    /\ pc' = "done"
    /\ UNCHANGED load_vars_but_pc
    /\ UNCHANGED <<graph_nodes, emit_vars>>

Next ==
    \/ DfsNext
    \/ DfsDone
    \/ SkipGlobal
    \/ StartReference
    \/ ReferencesDone
    \/ Resolve
    \/ StartExpand
    \/ ExpandNode
    \/ StartEmit
    \/ PostOrderVisit
    \/ PostOrderFinish
    \/ EmitDone

Spec == Init /\ [][Next]_vars

\* load, expand_macros and into_js_execution_code run to completion on one
\* thread: a step that can be taken is taken
FairSpec == Spec /\ WF_vars(Next)

(***************************************************************************)
(* One macro execution (MacroRuntime::execute_macro)                       *)
(***************************************************************************)
\* no build is in progress
BuildIdle ==
    /\ files = <<>>
    /\ host_functions = {}
    /\ op_table = <<>>
    /\ expanded = <<>>
    /\ macro_failed = {}
    /\ visits = <<>>
    /\ graph_nodes = <<>>
    /\ graph_edges = <<>>
    /\ definitions_index = <<>>
    /\ dfs_stack = <<>>
    /\ dfs_discovered = {}
    /\ pc = "idle"
    /\ nx = root
    /\ references = {}
    /\ reference = <<"", NoIdentifier>>
    /\ current_identifier = NoIdentifier
    /\ error = NoError
    /\ trail = NoTrail
    /\ written = NoIdentifier
    /\ load_requests = {}
    /\ node_origin = <<>>
    /\ expand_at = 0
    /\ po_stack = <<>>
    /\ po_discovered = {}
    /\ po_finished = {}
    /\ module_items = <<>>
    /\ emitted_from = <<>>

build_vars == <<load_vars, emit_vars, op_table, expanded, macro_failed, visits>>

\* the greatest max_iterations explored
MaxCalls == 3

\* the greatest number of execute_macro calls made on one runtime
MaxExecutions == 2

\* the greatest number of sibling invocations the macro bodies make
MaxPlan == 3

\* the names sibling macros are injected under
SiblingNames == {"a", "b"}

\* the sequences of sibling invocations the bodies may go on to make
RECURSIVE Plans(_)
Plans(n) ==
    IF n = 0 THEN {<<>>}
    ELSE Plans(n - 1) \cup
         {Append(p, name) : p \in {q \in Plans(n - 1) : Len(q) = n - 1},
                            name \in SiblingNames}

\* a counting wrapper that throws one invocation early
wrapped_call_at_limit(count, max) ==
    [count |-> count + 1, threw |-> count + 1 >= max]

\* the wrapper around every macro function: __macro_call_count++;
\* if (__macro_call_count > __max_iterations) throw ...; return __inner(...)
wrapped_call(count, max) ==
    [count |-> count + 1, threw |-> count + 1 > max]

\* MacroRuntime::new() and the first execute_macro call on it
MacroInit ==
    /\ BuildIdle
    /\ HttpIdle
    /\ TimerIdle
    /\ runtime_declared = FALSE
    /\ max_iterations \in 0..MaxCalls
    /\ other_macros \in SUBSET SiblingNames
    /\ call_plan \in Plans(MaxPlan)
    /\ plan_at_start = call_plan
    /\ calls_made = 1
    /\ macro_call_count = 0
    /\ macro_status = "idle"
    /\ invocation_log = <<>>
    /\ bodies_run = 0

\* the next execute_macro call on the same MacroRuntime (expand_macros makes
\* all the calls of a build on one runtime)
NextCall ==
    /\ macro_status \in {"ok", "err"}
    /\ calls_made < MaxExecutions
    /\ calls_made' = calls_made + 1
    /\ max_iterations' \in 0..MaxCalls
    /\ other_macros' \in SUBSET SiblingNames
    /\ call_plan' \in Plans(MaxPlan)
    /\ plan_at_start' = call_plan'
    /\ macro_call_count' = 0
    /\ macro_status' = "idle"
    /\ invocation_log' = <<>>
    /\ bodies_run' = 0
    /\ UNCHANGED runtime_declared
    /\ UNCHANGED <<build_vars, http_vars, timer_vars>>

\* self.runtime.execute_script: the script's top-level `let` and `const`
\* declarations are instantiated in the global scope of the runtime, which
\* rejects the script when an earlier script declared the same names
StartScript ==
    /\ macro_status = "idle"
    /\ IF runtime_declared
       THEN /\ macro_status' = "thrown"
            /\ UNCHANGED macro_call_count
       ELSE /\ macro_status' = "declared"
            /\ macro_call_count' = 0
    /\ runtime_declared' = TRUE
    /\ UNCHANGED <<max_iterations, other_macros, call_plan, invocation_log,
                   bodies_run, plan_at_start, calls_made>>
    /\ UNCHANGED <<build_vars, http_vars, timer_vars>>

\* one invocation of the wrapper `name`
Invoke(name) ==
    LET call == wrapped_call(macro_call_count, max_iterations)
    IN /\ macro_call_count' = call.count
       /\ invocation_log' = Append(invocation_log,
             [name |-> name, count |-> call.count, threw |-> call.threw])
       /\ IF call.threw
          THEN /\ macro_status' = "thrown"
               /\ UNCHANGED bodies_run
          ELSE /\ macro_status' = "running"
               /\ bodies_run' = bodies_run + 1

\* const __macro_result = __macro_fn(...__macro_args)
CallMacroFn ==
    /\ macro_status = "declared"
    /\ Invoke("__macro_fn")
    /\ UNCHANGED <<max_iterations, other_macros, call_plan, runtime_declared,
                   plan_at_start, calls_made>>
    /\ UNCHANGED <<build_vars, http_vars, timer_vars>>

\* a body that runs calls the next name of its plan: a sibling that was
\* injected is invoked through its wrapper, any other name is not defined
CallSibling ==
    /\ macro_status = "running"
    /\ call_plan # <<>>
    /\ call_plan' = Tail(call_plan)
    /\ IF Head(call_plan) \in other_macros
       THEN Invoke(Head(call_plan))
       ELSE /\ macro_status' = "thrown"
            /\ UNCHANGED <<macro_call_count, invocation_log, bodies_run>>
    /\ UNCHANGED <<max_iterations, other_macros, runtime_declared,
                   plan_at_start, calls_made>>
    /\ UNCHANGED <<build_vars, http_vars, timer_vars>>

\* the bodies return: op_set_macro_result stores the result, Ok(MacroResult)
ReturnResult ==
    /\ macro_status = "running"
    /\ call_plan = <<>>
    /\ macro_status' = "ok"
    /\ UNCHANGED <<max_iterations, other_macros, call_plan, macro_call_count,
                   invocation_log, bodies_run, runtime_declared, plan_at_start,
                   calls_made>>
    /\ UNCHANGED <<build_vars, http_vars, timer_vars>>

\* execute_script(...)? : the exception leaves the script and is returned
ExecFailed ==
    /\ macro_status = "thrown"
    /\ macro_status' = "err"
    /\ UNCHANGED <<max_iterations, other_macros, call_plan, macro_call_count,
                   invocation_log, bodies_run, runtime_declared, plan_at_start,
                   calls_made>>
    /\ UNCHANGED <<build_vars, http_vars, timer_vars>>

MacroNext ==
    \/ NextCall
    \/ StartScript
    \/ CallMacroFn
    \/ CallSibling
    \/ ReturnResult
    \/ ExecFailed

MacroSpec == MacroInit /\ [][MacroNext]_vars

(***************************************************************************)
(* The module loader over HTTP (HttpFileLoader)                            *)
(***************************************************************************)
\* max_cache_age: 24 * 60 * 60, // 24 hours
max_cache_age == 86400

\* the readings of the system clock explored, in seconds since the epoch
Times == {0, 86399, 86400}

\* the paths asked of the loader
LoaderPaths == {"https://example.com/mod.ts", "http://example.com/mod.ts", "/a.ts"}

\* the texts a server answers with
Contents == {"v1", "v2"}

\* what http_client.get(url).send() gives: a response with a success status
\* whose body arrives, one whose body cannot be read (response.text() is Err),
\* a response with another status, or no response
Responses ==
    {[kind |-> "success", content |-> c] : c \in Contents}
        \cup {[kind |-> "body", content |-> ""], [kind |-> "status", content |-> ""],
              [kind |-> "error", content |-> ""]}

starts_with(s, prefix) ==
    /\ Len(s) >= Len(prefix)
    /\ \A i \in 1..Len(prefix) : SubSeq(s, i, i) = SubSeq(prefix, i, i)

is_http_uri(uri) == starts_with(uri, "http://") \/ starts_with(uri, "https://")

\* now - self.cached_at < max_age_secs on u64: when cached_at is greater than
\* now the subtraction panics in a build with overflow checks and wraps
\* otherwise; the wrapped difference 2^64 - (cached_at - now) is greater than
\* max_age_secs for every cached_at and now of Times
is_fresh(cached_at, t, max_age_secs, checks) ==
    IF cached_at <= t
    THEN IF t - cached_at < max_age_secs THEN "fresh" ELSE "stale"
    ELSE IF checks THEN "panic" ELSE "stale"

\* !self.force_reload && cache_path.exists()
cache_consulted(force, url) == ~force /\ url \in DOMAIN cache_file

\* what a read finds before it acts
ReadRecord(path) ==
    [path |-> path,
     force_reload |-> force_reload,
     now |-> now,
     cached |-> path \in DOMAIN cache_file,
     cached_content |-> IF path \in DOMAIN cache_file THEN cache_file[path] ELSE "",
     has_metadata |-> path \in DOMAIN metadata_file,
     cached_at |-> IF path \in DOMAIN metadata_file THEN metadata_file[path] ELSE 0,
     network |-> FALSE,
     response |-> "none",
     outcome |-> "none",
     content |-> ""]

HttpInit ==
    /\ BuildIdle
    /\ MacroIdle
    /\ TimerIdle
    /\ runtime_declared = FALSE
    /\ force_reload \in BOOLEAN
    /\ overflow_checks \in BOOLEAN
    /\ now \in Times
    /\ cache_file = <<>>
    /\ metadata_file = <<>>
    /\ last_read = NoRead

\* the system clock is read anew by every call; it is not monotonic
ClockStep ==
    /\ last_read.outcome # "panic"
    /\ now' \in Times \ {now}
    /\ UNCHANGED <<force_reload, overflow_checks, cache_file, metadata_file,
                   last_read>>
    /\ UNCHANGED <<build_vars, runtime_declared, macro_vars, timer_vars>>

\* fetch_and_cache, from line 160 on: the request is sent
FetchFromNetwork(url, record) ==
    \E response \in Responses :
        LET sent == [record EXCEPT !.network = TRUE, !.response = response.kind]
        IN CASE response.kind = "success" ->
                  /\ cache_file' = (url :> response.content) @@ cache_file
                  /\ \/ metadata_file' = (url :> now) @@ metadata_file
                     \/ UNCHANGED metadata_file
                  /\ last_read' = [sent EXCEPT !.outcome = "Ok",
                                               !.content = response.content]
             [] response.kind = "body" ->
                  \* response.text().map_err(..)?
                  /\ UNCHANGED <<cache_file, metadata_file>>
                  /\ last_read' = [sent EXCEPT !.outcome = "Err"]
             [] response.kind \in {"status", "error"} ->
                  /\ UNCHANGED <<cache_file, metadata_file>>
                  /\ last_read' =
                        IF url \in DOMAIN cache_file
                        THEN [sent EXCEPT !.outcome = "Ok",
                                          !.content = cache_file[url]]
                        ELSE [sent EXCEPT !.outcome = "Err"]

\* fetch_and_cache(url)
fetch_and_cache(url) ==
    LET record == ReadRecord(url)
        fresh == IF cache_consulted(force_reload, url) /\ url \in DOMAIN metadata_file
                 THEN is_fresh(metadata_file[url], now, max_cache_age, overflow_checks)
                 ELSE "stale"
    IN CASE fresh = "fresh" ->
              /\ last_read' = [record EXCEPT !.outcome = "Ok",
                                             !.content = cache_file[url]]
              /\ UNCHANGED <<cache_file, metadata_file>>
         [] fresh = "panic" ->
              /\ last_read' = [record EXCEPT !.outcome = "panic"]
              /\ UNCHANGED <<cache_file, metadata_file>>
         [] fresh = "stale" -> FetchFromNetwork(url, record)

\* FileLoader::read_file(path)
ReadFile ==
    /\ last_read.outcome # "panic"
    /\ \E path \in LoaderPaths :
          IF is_http_uri(path)
          THEN fetch_and_cache(path)
          ELSE /\ last_read' = [ReadRecord(path) EXCEPT !.outcome = "Ok",
                                                       !.content = "local"]
               /\ UNCHANGED <<cache_file, metadata_file>>
    /\ UNCHANGED <<force_reload, overflow_checks, now>>
    /\ UNCHANGED <<build_vars, runtime_declared, macro_vars, timer_vars>>

HttpNext ==
    \/ ClockStep
    \/ ReadFile

HttpSpec == HttpInit /\ [][HttpNext]_vars

(***************************************************************************)
(* Timers: the host functions op_timerStart, op_timerWait, op_timerCancel  *)
(* and the globals TIMER_BOOTSTRAP builds on them.  JavaScript runs one    *)
(* synchronous stretch at a time; the future of an op_timerWait call is    *)
(* polled by the event loop, its sleep elapses when the time driver turns. *)
(***************************************************************************)
other_vars == <<build_vars, runtime_declared, macro_vars, http_vars>>

\* what a cancel finds of the wait called with timer_id
wait_state(timer_id) ==
    IF timer_id \in cancelled THEN "cancelled"
    ELSE IF waits[timer_id].stage \in {"none", "called"} THEN "not_started"
    ELSE IF waits[timer_id].stage = "selecting" THEN "pending"
    ELSE IF waits[timer_id].completed THEN "completed"
    ELSE "cancelled"

\* if let Some(sender) = cancellers.remove(&timer_id) { let _ = sender.send(()); true }
\* else { false }
op_timerCancel(timer_id) ==
    LET found == timer_id \in TIMER_CANCELLERS
    IN /\ TIMER_CANCELLERS' = TIMER_CANCELLERS \ {timer_id}
       /\ waits' = IF found THEN [waits EXCEPT ![timer_id].signalled = TRUE] ELSE waits
       /\ cancelled' = IF found THEN cancelled \cup {timer_id} ELSE cancelled
       /\ last_cancel' = [timer_id |-> timer_id, result |-> found,
                          wait |-> wait_state(timer_id)]

\* the branches of tokio::select! that are ready when the future is polled;
\* select! polls its branches in random order and takes the first one ready
ready_branches(wait) ==
    (IF wait.elapsed THEN {"sleep"} ELSE {}) \cup (IF wait.signalled THEN {"rx"} ELSE {})

\* the callback is invoked whenever the wait completed
timeout_fires_when_completed(completed, timer) ==
    completed /\ timer.type # "none"

\* if (completed && timer && !timer.cleared)
timeout_fires(completed, timer) ==
    completed /\ timer.type # "none" /\ ~timer.cleared

\* if (completed && active)
interval_fires(completed, active) ==
    completed /\ active

\* no timer was set; the program calls the globals from here on
TimerInit ==
    /\ BuildIdle
    /\ MacroIdle
    /\ HttpIdle
    /\ runtime_declared = FALSE
    /\ TimerIdle

\* globalThis.setTimeout, up to the first await of its async function
setTimeout ==
    /\ NEXT_TIMER_ID <= MaxTimers
    /\ LET timerId == NEXT_TIMER_ID
       IN /\ NEXT_TIMER_ID' = timerId + 1
          /\ timerCallbacks' = [timerCallbacks EXCEPT
                                   ![timerId] = [type |-> "timeout", cleared |-> FALSE]]
          /\ waits' = [waits EXCEPT ![timerId].stage = "called"]
          /\ issued' = [issued EXCEPT ![timerId] = "timeout"]
    /\ UNCHANGED <<TIMER_CANCELLERS, intervals, invocations, clear_called, cancelled,
                   last_cancel>>
    /\ UNCHANGED other_vars

\* globalThis.clearTimeout
clearTimeout(timerId) ==
    /\ timerCallbacks' = IF timerCallbacks[timerId].type # "none"
                         THEN [timerCallbacks EXCEPT ![timerId].cleared = TRUE]
                         ELSE timerCallbacks
    /\ op_timerCancel(timerId)
    /\ clear_called' = IF issued[timerId] = "timeout"
                       THEN clear_called \cup {timerId}
                       ELSE clear_called
    /\ UNCHANGED <<NEXT_TIMER_ID, intervals, issued, invocations>>
    /\ UNCHANGED other_vars

\* globalThis.setInterval: scheduleNext() up to its first await, then the
\* interval id and its registry entry
setInterval ==
    /\ NEXT_TIMER_ID + 1 <= MaxTimers
    /\ LET currentTimerId == NEXT_TIMER_ID
           intervalId == NEXT_TIMER_ID + 1
       IN /\ NEXT_TIMER_ID' = intervalId + 1
          /\ waits' = [waits EXCEPT ![currentTimerId].stage = "called"]
          /\ intervals' = [intervals EXCEPT
                              ![intervalId] = [active |-> TRUE,
                                               currentTimerId |-> currentTimerId,
                                               at |-> "await"]]
          /\ timerCallbacks' = [timerCallbacks EXCEPT
                                   ![intervalId] = [type |-> "interval", cleared |-> FALSE]]
          /\ issued' = [issued EXCEPT ![currentTimerId] = "tick",
                                      ![intervalId] = "interval"]
    /\ UNCHANGED <<TIMER_CANCELLERS, invocations, clear_called, cancelled, last_cancel>>
    /\ UNCHANGED other_vars

\* globalThis.clearInterval, with the cancel() closure of the entry
clearInterval(intervalId) ==
    /\ IF timerCallbacks[intervalId].type = "interval"
       THEN /\ intervals' = [intervals EXCEPT ![intervalId].active = FALSE]
            /\ op_timerCancel(intervals[intervalId].currentTimerId)
            /\ timerCallbacks' = [timerCallbacks EXCEPT ![intervalId] = NoTimer]
       ELSE UNCHANGED <<intervals, TIMER_CANCELLERS, waits, cancelled, last_cancel,
                        timerCallbacks>>
    /\ clear_called' = IF issued[intervalId] = "interval"
                       THEN clear_called \cup {intervalId}
                       ELSE clear_called
    /\ UNCHANGED <<NEXT_TIMER_ID, issued, invocations>>
    /\ UNCHANGED other_vars

\* op_timerWait, first poll: the channel is made and its sender stored
RegisterCanceller(timer_id) ==
    /\ waits[timer_id].stage = "called"
    /\ TIMER_CANCELLERS' = TIMER_CANCELLERS \cup {timer_id}
    /\ waits' = [waits EXCEPT ![timer_id].stage = "selecting"]
    /\ UNCHANGED <<NEXT_TIMER_ID, timerCallbacks, intervals, issued, invocations,
                   clear_called, cancelled, last_cancel>>
    /\ UNCHANGED other_vars

\* the time driver marks sleep(delay_ms) elapsed
SleepElapses(timer_id) ==
    /\ waits[timer_id].stage = "selecting"
    /\ ~waits[timer_id].elapsed
    /\ waits' = [waits EXCEPT ![timer_id].elapsed = TRUE]
    /\ UNCHANGED <<NEXT_TIMER_ID, TIMER_CANCELLERS, timerCallbacks, intervals, issued,
                   invocations, clear_called, cancelled, last_cancel>>
    /\ UNCHANGED other_vars

\* op_timerWait, the poll at which tokio::select! finds a branch ready
SelectReturns(timer_id) ==
    /\ waits[timer_id].stage = "selecting"
    /\ \E branch \in ready_branches(waits[timer_id]) :
          IF branch = "sleep"
          THEN /\ TIMER_CANCELLERS' = TIMER_CANCELLERS \ {timer_id}
               /\ waits' = [waits EXCEPT ![timer_id].stage = "returned",
                                         ![timer_id].completed = TRUE]
          ELSE /\ UNCHANGED TIMER_CANCELLERS
               /\ waits' = [waits EXCEPT ![timer_id].stage = "returned",
                                         ![timer_id].completed = FALSE]
    /\ UNCHANGED <<NEXT_TIMER_ID, timerCallbacks, intervals, issued, invocations,
                   clear_called, cancelled, last_cancel>>
    /\ UNCHANGED other_vars

\* the async function of setTimeout after its await
TimeoutResumes(timerId) ==
    /\ issued[timerId] = "timeout"
    /\ waits[timerId].stage = "returned"
    /\ waits' = [waits EXCEPT ![timerId].stage = "resumed"]
    /\ timerCallbacks' = [timerCallbacks EXCEPT ![timerId] = NoTimer]
    /\ invocations' = IF timeout_fires(waits[timerId].completed, timerCallbacks[timerId])
                      THEN [invocations EXCEPT ![timerId] = @ + 1]
                      ELSE invocations
    /\ UNCHANGED <<NEXT_TIMER_ID, TIMER_CANCELLERS, intervals, issued, clear_called,
                   cancelled, last_cancel>>
    /\ UNCHANGED other_vars

\* scheduleNext after its await: the callback, or break
IntervalResumes(intervalId) ==
    /\ intervals[intervalId].at = "await"
    /\ LET currentTimerId == intervals[intervalId].currentTimerId
       IN /\ waits[currentTimerId].stage = "returned"
          /\ waits' = [waits EXCEPT ![currentTimerId].stage = "resumed"]
          /\ IF interval_fires(waits[currentTimerId].completed, intervals[intervalId].active)
             THEN /\ invocations' = [invocations EXCEPT ![intervalId] = @ + 1]
                  /\ intervals' = [intervals EXCEPT ![intervalId].at = "callback"]
             ELSE /\ UNCHANGED invocations
                  /\ intervals' = [intervals EXCEPT ![intervalId].at = "done"]
    /\ UNCHANGED <<NEXT_TIMER_ID, TIMER_CANCELLERS, timerCallbacks, issued, clear_called,
                   cancelled, last_cancel>>
    /\ UNCHANGED other_vars

\* scheduleNext once the callback returned: while (active), the next timer
IntervalLoops(intervalId) ==
    /\ intervals[intervalId].at = "callback"
    /\ IF intervals[intervalId].active
       THEN /\ NEXT_TIMER_ID <= MaxTimers
            /\ LET currentTimerId == NEXT_TIMER_ID
               IN /\ NEXT_TIMER_ID' = currentTimerId + 1
                  /\ waits' = [waits EXCEPT ![currentTimerId].stage = "called"]
                  /\ issued' = [issued EXCEPT ![currentTimerId] = "tick"]
                  /\ intervals' = [intervals EXCEPT
                                      ![intervalId].currentTimerId = currentTimerId,
                                      ![intervalId].at = "await"]
       ELSE /\ intervals' = [intervals EXCEPT ![intervalId].at = "done"]
            /\ UNCHANGED <<NEXT_TIMER_ID, waits, issued>>
    /\ UNCHANGED <<TIMER_CANCELLERS, timerCallbacks, invocations, clear_called,
                   cancelled, last_cancel>>
    /\ UNCHANGED other_vars

TimerNext ==
    \/ setTimeout
    \/ \E timerId \in TimerIds : clearTimeout(timerId)
    \/ setInterval
    \/ \E intervalId \in TimerIds : clearInterval(intervalId)
    \/ \E timer_id \in TimerIds : RegisterCanceller(timer_id)
    \/ \E timer_id \in TimerIds : SleepElapses(timer_id)
    \/ \E timer_id \in TimerIds : SelectReturns(timer_id)
    \/ \E timerId \in TimerIds : TimeoutResumes(timerId)
    \/ \E intervalId \in TimerIds : IntervalResumes(intervalId)
    \/ \E intervalId \in TimerIds : IntervalLoops(intervalId)

TimerSpec == TimerInit /\ [][TimerNext]_vars

(***************************************************************************)
(* Properties                                                              *)
(***************************************************************************)
Successors(n) ==
    {graph_edges[i].target : i \in {j \in DOMAIN graph_edges : graph_edges[j].source = n}}

RECURSIVE Closure(_)
Closure(S) ==
    LET T == S \cup UNION {Successors(n) : n \in S}
    IN IF T = S THEN S ELSE Closure(T)

\* the nodes reachable from n along one or more edges
Reachable(n) == Closure(Successors(n))

\* the definition a node stands for: a host function or a place in a module
Canonical(n) ==
    [op |-> graph_nodes[n].declaration.op, site |-> graph_nodes[n].declaration.site]

Built == pc \in {"loaded", "expand", "emit", "done"}

\* C1: there is at most one node per canonical definition: two references
\* that resolve to the same definition (module, name) or to the same host
\* function share one node.
C1_OneNodePerDefinition ==
    \A n, m \in DOMAIN graph_nodes \ {root} :
        Canonical(n) = Canonical(m) => n = m

\* C2: no node of the graph carries an indirection (FuneeIdentifier), at any
\* point of the construction and so when it finishes.
C2_NoIndirectionNodes ==
    \A n \in DOMAIN graph_nodes :
        graph_nodes[n].declaration.kind # "FuneeIdentifier"

C2_Witness ==
    /\ pc = "loaded"
    /\ \E n \in DOMAIN node_origin :
          /\ Cardinality(node_origin[n].links) >= 2
          /\ graph_nodes[n].declaration.kind \in ConcreteKinds

\* C3: when the resolution loop comes back to an identifier it has already
\* looked up, the build has failed with CircularIndirection.
C3_RevisitFails ==
    (pc = "resolve" /\ current_identifier \in trail.looked_up)
        => error.kind = "CircularIndirection"

\* C4: a node's URI is the URI of the module in which its declaration was
\* found; every indirection followed on the way was resolved relative to the
\* directory of the module containing it; the chain /a.ts -> /lib/b.ts ->
\* /lib/c.ts that ends in `export const x = 42` gives one node for x, at
\* /lib/c.ts.
C4_ChainXFiles ==
    /\ load_declaration(files, FuneeIdentifier(EntryPath, "x"))[2].target
          = FuneeIdentifier(<<".", "lib", "b.ts">>, "x")
    /\ load_declaration(files, FuneeIdentifier(LibB, "x"))[2].target
          = FuneeIdentifier(<<".", "c.ts">>, "x")
    /\ load_declaration(files, FuneeIdentifier(LibC, "x"))[2].kind = "VarInit"

C4_ResolvedUri ==
    /\ \A n \in DOMAIN node_origin :
          /\ graph_nodes[n].declaration.kind # "HostFn"
                => graph_nodes[n].uri = graph_nodes[n].declaration.site.uri
          /\ \A l \in node_origin[n].links :
                l[3] = FuneeIdentifier(to_logical_path(l[2].uri, Parent(l[1].uri)),
                                       l[2].name)
    /\ (Built /\ C4_ChainXFiles /\ graph_nodes[root].declaration.ast[1] = "id")
          => /\ DOMAIN graph_nodes = {root, 1}
             /\ graph_nodes[1].uri = LibC
             /\ graph_nodes[1].declaration.site = FuneeIdentifier(LibC, "x")
             /\ graph_nodes[1].declaration.ast
                   = load_declaration(files, FuneeIdentifier(LibC, "x"))[2].ast

C4_Witness ==
    /\ pc = "loaded"
    /\ C4_ChainXFiles
    /\ graph_nodes[root].declaration.ast[1] = "id"
    /\ Cardinality(node_origin[1].links) = 2

\* C5: when the tentative identifier of a reference, or an indirection target
\* met while chasing it, is an entry of the host-function set, the node of
\* the reference holds HostFn with that entry's name.
C5_HostCoverage ==
    \A n \in DOMAIN node_origin :
        \A h \in node_origin[n].targets \cap host_functions :
            graph_nodes[n].declaration = HostFn(h.name)

C5_Witness ==
    /\ pc = "loaded"
    /\ \E n \in DOMAIN node_origin :
          /\ node_origin[n].targets \cap host_functions # {}
          /\ node_origin[n].links # {}

\* C6: the file loader is never asked for a module because of an identifier
\* of the host-function set: no load is made for an identifier that the
\* module text spells as a host-function entry, and the module "funee" is
\* never the one loaded.
C6_HostNeverLoaded ==
    \A r \in load_requests :
        /\ r.written \notin host_functions
        /\ r.loaded.uri \notin {h.uri : h \in host_functions}

C6_Witness ==
    /\ pc = "done"
    /\ load_requests # {}
    /\ \E n \in DOMAIN node_origin :
          /\ graph_nodes[n].declaration.kind = "HostFn"
          /\ FuneeIdentifier(Funee, "log") \in node_origin[n].targets

\* the module current_identifier points at exists and does not declare the name
MissingHere ==
    /\ pc = "resolve"
    /\ current_identifier.uri \in DOMAIN files
    /\ load_declaration(files, current_identifier)[1] = "None"

\* C7 as claimed: a lookup that finds no declaration fails the build with an
\* UnresolvedReference naming the identifier the resolution started from; a
\* failed build takes no further step and has lowered no statement.
C7_ReportsStart ==
    [][/\ MissingHere =>
            /\ pc' = "failed"
            /\ error' = [kind |-> "UnresolvedReference", id |-> reference[2]]
            /\ UNCHANGED <<graph_nodes, graph_edges>>
       /\ pc # "failed"
       /\ pc' = "failed" => module_items' = <<>>]_vars

\* C7 as amended: the failure names the identifier whose lookup failed, the
\* last one of the chain.
C7_ReportsMissing ==
    [][/\ MissingHere =>
            /\ pc' = "failed"
            /\ error' = [kind |-> "UnresolvedReference", id |-> current_identifier]
            /\ UNCHANGED <<graph_nodes, graph_edges>>
       /\ pc # "failed"
       /\ pc' = "failed" => module_items' = <<>>]_vars

C7_Witness ==
    /\ pc = "failed"
    /\ error.kind = "UnresolvedReference"
    /\ error.id # reference[2]

\* C8: a free name that is a JS global gives no edge and no node
C8_GlobalsSkipped ==
    /\ \A i \in DOMAIN graph_edges : graph_edges[i].weight \notin JsGlobals
    /\ \A id \in DOMAIN definitions_index : id.name \notin JsGlobals
    /\ node_count = Cardinality(DOMAIN definitions_index) + 1

C8_Witness ==
    /\ pc = "loaded"
    /\ \E n \in DOMAIN graph_nodes :
          /\ "Math" \in FreeNames(graph_nodes[n].declaration.ast, {})
          /\ "Math" \in DOMAIN get_module_declarations(files[graph_nodes[n].uri],
                                                       graph_nodes[n].uri)

Emits(n) == graph_nodes[n].declaration.kind \notin {"Macro", "ClosureValue"}

EmittedBefore(m, k) == \E q \in 1..(k - 1) : emitted_from[q].node = m

\* C9 as claimed: the statement of a node comes after the statements of all
\* the nodes reachable from it.
C9_PostOrder ==
    pc = "done" =>
        \A k \in DOMAIN emitted_from :
            \A m \in Reachable(emitted_from[k].node) \ {emitted_from[k].node} :
                Emits(m) => EmittedBefore(m, k)

\* C9 as amended: this holds of every node that is not on a cycle.
C9_PostOrderOffCycles ==
    pc = "done" =>
        \A k \in DOMAIN emitted_from :
            emitted_from[k].node \notin Reachable(emitted_from[k].node) =>
                \A m \in Reachable(emitted_from[k].node) :
                    Emits(m) => EmittedBefore(m, k)

C9_Witness ==
    /\ pc = "done"
    /\ \E k \in DOMAIN emitted_from :
          LET n == emitted_from[k].node
          IN /\ n # root
             /\ n \notin Reachable(n)
             /\ \E m \in Reachable(n) : m \in Reachable(m)

\* C10: in every statement, each free occurrence of the label of an outgoing
\* edge is replaced by the synthetic name of the edge's target, and the
\* statement of node j is named declaration_j.
C10_ReferencesRenamed ==
    \A k \in DOMAIN module_items :
        LET from == emitted_from[k]
            free_before == FreeNames(from.declaration.ast, {})
            free_after == FreeNames(module_items[k].ast, {})
        IN /\ from.declaration.kind # "Expr"
                => module_items[k].name = declaration_name(from.node)
           /\ from.declaration.kind # "HostFn"
                => \A l \in DOMAIN from.to_replace :
                      /\ l \notin free_after
                      /\ l \in free_before => from.to_replace[l] \in free_after

\* the statement of the bundle lowered from node n, if there is one
emitted_at(n) == {k \in DOMAIN emitted_from : emitted_from[k].node = n}

\* C11: the trampoline emitted for a host function calls exactly the op the
\* host table configures for that function, and hands it all its arguments.
C11_TrampolineCallsConfiguredOp ==
    \A k \in DOMAIN module_items :
        emitted_from[k].declaration.kind = "HostFn" =>
            \A h \in node_origin[emitted_from[k].node].targets \cap host_functions :
                /\ module_items[k].op = op_table[h]
                /\ module_items[k].ast =
                      Fn(<<"args">>,
                         Call(Id("Deno.core.ops." \o op_table[h]), <<Id("args")>>))

\* C12: no statement of the bundle is lowered from a Macro or a ClosureValue
\* node.
C12_MacroNeverEmitted ==
    \A k \in DOMAIN emitted_from :
        /\ emitted_from[k].declaration.kind \notin {"Macro", "ClosureValue"}
        /\ graph_nodes[emitted_from[k].node].declaration.kind
              \notin {"Macro", "ClosureValue"}
        /\ module_items[k].stmt # "unreachable"

C12_Witness ==
    /\ pc = "done"
    /\ \E n \in po_finished :
          /\ graph_nodes[n].declaration.kind = "Macro"
          /\ Cardinality({i \in DOMAIN graph_edges : graph_edges[i].target = n}) >= 2

\* C13: expansion does not complete, every macro call it made having returned
\* an expression, while a node still holds a macro application.
C13_NoApplicationRemains ==
    (pc \in {"emit", "done"} /\ macro_failed = {})
        => \A n \in DOMAIN graph_nodes : ~is_macro_call(n)

\* C14: a build in which a macro that returns a call of itself was applied
\* does not complete: it fails within the cap.
C14_SelfCallingMacroFails ==
    pc \in {"emit", "done"}
        => \A n \in DOMAIN expanded : expanded[n].macro[2] # "wrap_self"

\* C15: once a macro invocation failed, the build is aborted: no statement is
\* lowered and no bundle is returned.
C15_FailingMacroAborts ==
    macro_failed # {} => (module_items = <<>> /\ pc # "done")

\* the statement the program obtained by writing the argument in place of the
\* macro call gives for the same node: the argument with each free name
\* replaced by the synthetic name of the node the name leads to
replaced_textually(call, map) == RenameReferences(resolver(call[3][1], {}), map)

\* two initializers are equivalent when they have the same text, or when one
\* is the name of a variable of the bundle and the other is the text of that
\* variable's initializer
equivalent(ast, expected) ==
    \/ expr_to_code(ast) = expr_to_code(expected)
    \/ /\ expected[1] = "id"
       /\ \E k \in DOMAIN module_items :
             /\ module_items[k].stmt = "var"
             /\ module_items[k].name = expected[2]
             /\ expr_to_code(module_items[k].ast) = expr_to_code(ast)

\* C16: a node expanded by a macro that returns its argument unchanged is
\* lowered to a statement equivalent to the one of the program with the
\* argument written in place of the macro call.
C16_IdentityMacroIsTransparent ==
    pc = "done" =>
        \A k \in DOMAIN module_items :
            LET from == emitted_from[k]
            IN (from.node \in DOMAIN expanded
                /\ expanded[from.node].macro[2] = "identity")
                  => equivalent(module_items[k].ast,
                        replaced_textually(expanded[from.node].call, from.to_replace))

\* a chain of indirections that comes back to an identifier it went through
RECURSIVE chases_forever(_, _)
chases_forever(id, seen) ==
    IF id \in seen THEN TRUE
    ELSE IF id.uri \notin DOMAIN files THEN FALSE
    ELSE LET loaded == load_declaration(files, id)
         IN /\ loaded[1] = "Some"
            /\ is_indirection(loaded[2])
            /\ ~contains_host(loaded[2].target)
            /\ chases_forever(next_identifier(id, loaded[2].target), seen \cup {id})

ReexportCycle ==
    \E uri \in DOMAIN files :
        \E name \in DOMAIN get_module_declarations(files[uri], uri) :
            chases_forever(FuneeIdentifier(uri, name), {})

NoDuplicates(seq) == \A i, j \in DOMAIN seq : seq[i] = seq[j] => i = j

C19_EdgesRebuilt ==
    pc \in {"emit", "done"} =>
        \A n \in DOMAIN expanded :
            /\ graph_nodes[n].declaration.kind = "VarInit"
            /\ graph_nodes[n].declaration.ast = expanded[n].result
            /\ {graph_edges[i].weight : i \in {j \in DOMAIN graph_edges :
                                                  graph_edges[j].source = n}}
                  = FreeNames(expanded[n].result, {}) \ JsGlobals

\* C20: within one macro execution the counter starts at 0, every invocation
\* of the macro or of a sibling adds one to it, and an invocation throws
\* exactly when the counter after its increment is greater than
\* max_iterations: the first max_iterations invocations run their body, the
\* next one throws and the execution fails.
C20_SharedCounterCap ==
    /\ macro_status = "declared" => macro_call_count = 0
    /\ macro_call_count = Len(invocation_log)
    /\ \A i \in DOMAIN invocation_log :
          /\ invocation_log[i].count = i
          /\ invocation_log[i].threw <=> i > max_iterations
          /\ invocation_log[i].threw => i = Len(invocation_log)
    /\ bodies_run = IF macro_call_count <= max_iterations
                    THEN macro_call_count ELSE max_iterations
    /\ macro_call_count <= max_iterations + 1
    /\ macro_call_count > max_iterations => macro_status \in {"thrown", "err"}
    /\ macro_status = "ok" => macro_call_count <= max_iterations

C20_Witness ==
    /\ macro_status = "err"
    /\ max_iterations >= 2
    /\ macro_call_count = max_iterations + 1
    /\ bodies_run = max_iterations
    /\ invocation_log[1].name = "__macro_fn"
    /\ {"a", "b"} \subseteq {invocation_log[i].name : i \in DOMAIN invocation_log}

\* the age of the cache entry the last read found, as the difference of the
\* two clock readings
cache_age == last_read.now - last_read.cached_at

ReadOfUrl == last_read.outcome # "none" /\ is_http_uri(last_read.path)

\* C17: a read of an HTTP(S) URL made with force_reload contacts the network,
\* whatever the cache holds; a read made without it that finds a cache entry
\* whose metadata is younger than max_cache_age returns the cached content and
\* does not contact the network.
C17_ReloadAndFreshCache ==
    ReadOfUrl =>
        /\ last_read.force_reload => last_read.network
        /\ (~last_read.force_reload /\ last_read.cached /\ last_read.has_metadata
              /\ cache_age < max_cache_age)
                 => /\ ~last_read.network
                    /\ last_read.outcome = "Ok"
                    /\ last_read.content = last_read.cached_content

\* the same for the cache entries whose metadata is not dated after the read
C17_FreshCacheNotFutureDated ==
    ReadOfUrl =>
        /\ last_read.force_reload => last_read.network
        /\ (~last_read.force_reload /\ last_read.cached /\ last_read.has_metadata
              /\ 0 <= cache_age /\ cache_age < max_cache_age)
                 => /\ ~last_read.network
                    /\ last_read.outcome = "Ok"
                    /\ last_read.content = last_read.cached_content

\* the synthetic names of the nodes of the graph
SyntheticNames == {declaration_name(n) : n \in DOMAIN graph_nodes}

\* the synthetic names the statement k of the bundle refers to
refers_to(k) == ResolveReferences(module_items[k].ast) \cap SyntheticNames

\* C21: every synthetic name a statement of the bundle refers to is the name
\* of a statement of the bundle.
C21_ReferencesAreEmitted ==
    pc = "done" =>
        \A k \in DOMAIN module_items :
            \A name \in refers_to(k) :
                \E j \in DOMAIN module_items :
                    /\ module_items[j].stmt \in {"function", "var"}
                    /\ module_items[j].name = name

\* the statements of the bundle that declare a name
Named == {k \in DOMAIN module_items : module_items[k].stmt \in {"function", "var"}}

\* C22: in the bundle every node that is not a Macro or a ClosureValue has
\* exactly one statement; the statement of a declaration is named
\* declaration_<index of the node>, the root expression is an expression
\* statement; and no two statements declare the same name.
C22_OneStatementPerNode ==
    pc = "done" =>
        /\ \A n \in DOMAIN graph_nodes :
              ~(graph_nodes[n].declaration.kind \in {"Macro", "ClosureValue"}) =>
                  /\ Cardinality(emitted_at(n)) = 1
                  /\ \A k \in emitted_at(n) :
                        IF graph_nodes[n].declaration.kind = "Expr"
                        THEN module_items[k].stmt = "expression"
                        ELSE /\ k \in Named
                             /\ module_items[k].name = "declaration_" \o ToString(n)
        /\ \A j, k \in Named : module_items[j].name = module_items[k].name => j = k

C22_Witness ==
    /\ pc = "done"
    /\ \E n \in DOMAIN graph_nodes :
          /\ Cardinality({i \in DOMAIN graph_edges : graph_edges[i].target = n}) >= 2
          /\ Cardinality(emitted_at(n)) = 1
    /\ Cardinality(Named) >= 3

\* C23: once the traversal is over, the statement of the root expression is
\* in the bundle once, as its last statement; before that it is not in the
\* bundle while a node is still on the traversal's stack below it.
C23_RootIsLast ==
    /\ pc = "done" =>
          /\ module_items # <<>>
          /\ emitted_at(root) = {Len(module_items)}
          /\ module_items[Len(module_items)].stmt = "expression"
    /\ emitted_at(root) # {} => (emitted_at(root) = {Len(module_items)} /\ po_stack = <<>>)

C23_Witness ==
    /\ pc = "done"
    /\ Len(module_items) >= 4
    /\ \E n \in DOMAIN graph_nodes : n # root /\ n \in Reachable(n) /\ emitted_at(n) # {}
    /\ emitted_at(root) = {Len(module_items)}

\* C24: at every point of the build a node has at most one outgoing edge for
\* a label, so the targets a label is renamed to do not depend on which edge
\* of the label is taken.
C24_OneEdgePerLabel ==
    \A i, j \in DOMAIN graph_edges :
        (graph_edges[i].source = graph_edges[j].source
           /\ graph_edges[i].weight = graph_edges[j].weight) => i = j

C24_Witness ==
    /\ pc = "done"
    /\ expanded # <<>>
    /\ \E n \in DOMAIN graph_nodes :
          Cardinality({i \in DOMAIN graph_edges : graph_edges[i].source = n}) >= 2
    /\ \E i, j \in DOMAIN graph_edges :
          /\ i # j
          /\ graph_edges[i].weight = graph_edges[j].weight
          /\ graph_edges[i].target = graph_edges[j].target

\* the item of the module at uri that records `name` as a local export, if
\* the declaration of `name` comes from such an item
LocalExportOf(id) ==
    {item \in Range(files[id.uri]) :
        /\ item.form = "export_named"
        /\ ~item.has_src
        /\ item.exported = id.name}

\* C25: `export { a as b }` without a source is recorded under b as an
\* indirection to (uri of the module, a), and a resolution that comes to b of
\* that module goes on with a of the same module.
C25_LocalExportStaysInModule ==
    \A l \in trail.links :
        \A item \in LocalExportOf(l[1]) :
            /\ l[2] = FuneeIdentifier(l[1].uri, item.orig)
            /\ l[3] = FuneeIdentifier(l[1].uri, item.orig)

\* `after` is `before` with nothing rewritten but occurrences of keys of the
\* map that no binder of the term binds, each to the name the map gives
RECURSIVE OnlyFreeKeysRenamed(_, _, _, _)
OnlyFreeKeysRenamed(before, after, map, bound) ==
    CASE before[1] = "id" ->
            \/ after = before
            \/ /\ after[1] = "id"
               /\ before[2] \notin bound
               /\ before[2] \in DOMAIN map
               /\ after[2] = map[before[2]]
      [] before[1] = "call" ->
            /\ after[1] = "call"
            /\ OnlyFreeKeysRenamed(before[2], after[2], map, bound)
            /\ DOMAIN after[3] = DOMAIN before[3]
            /\ \A i \in DOMAIN before[3] :
                  OnlyFreeKeysRenamed(before[3][i], after[3][i], map, bound)
      [] before[1] = "fn" ->
            /\ after[1] = "fn"
            /\ after[2] = before[2]
            /\ OnlyFreeKeysRenamed(before[3], after[3], map, bound \cup Range(before[2]))
      [] before[1] = "add" ->
            /\ after[1] = "add"
            /\ OnlyFreeKeysRenamed(before[2], after[2], map, bound)
            /\ OnlyFreeKeysRenamed(before[3], after[3], map, bound)
      [] OTHER -> after = before

\* the names of all identifiers of a term, bound or free
RECURSIVE Idents(_)
Idents(e) ==
    CASE e[1] = "id" -> {e[2]}
      [] e[1] = "call" -> Idents(e[2]) \cup UNION {Idents(e[3][i]) : i \in DOMAIN e[3]}
      [] e[1] = "fn" -> Range(e[2]) \cup Idents(e[3])
      [] e[1] = "add" -> Idents(e[2]) \cup Idents(e[3])
      [] OTHER -> {}

\* C26: in every statement lowered from a function or an expression, the
\* renamer rewrote nothing but free occurrences of keys of the rename map;
\* the parameters and the occurrences they bind are as in the declaration.
C26_BoundOccurrencesUntouched ==
    \A k \in DOMAIN module_items :
        emitted_from[k].declaration.kind \in {"FnDecl", "FnExpr", "Expr"} =>
            OnlyFreeKeysRenamed(emitted_from[k].declaration.ast, module_items[k].ast,
                                emitted_from[k].to_replace, {})

C26_Witness ==
    \E k \in DOMAIN module_items :
        /\ emitted_from[k].declaration.kind = "FnDecl"
        /\ \E key \in DOMAIN emitted_from[k].to_replace :
              /\ key \in Idents(module_items[k].ast)
              /\ emitted_from[k].to_replace[key] \in Idents(module_items[k].ast)

\* what a call with these parameters gives on a runtime of its own: the
\* wrappers are invoked in turn until one throws, a name that was not
\* injected is called, or the bodies return
RECURSIVE OutcomeAlone(_, _, _, _)
OutcomeAlone(count, max, others, plan) ==
    IF count + 1 > max THEN "err"
    ELSE IF plan = <<>> THEN "ok"
    ELSE IF Head(plan) \notin others THEN "err"
    ELSE OutcomeAlone(count + 1, max, others, Tail(plan))

\* C27: the outcome of an execute_macro call is the one its macro code,
\* arguments, sibling macros and cap give, whatever calls the runtime served
\* before.
C27_CallsAreIndependent ==
    macro_status \in {"ok", "err"} =>
        macro_status = OutcomeAlone(0, max_iterations, other_macros, plan_at_start)

\* the fetch of the read that a step serves failed
FetchFailed == now' = now /\ last_read'.response \in {"body", "status", "error"}

\* C28: a read whose fetch fails (no response, a response with a non-success
\* status, a body that cannot be read) returns the content of the cache entry
\* when there is one and an error when there is none, and leaves the cache
\* entries and their metadata as they were.
C28_FailedFetchFallsBack ==
    [][FetchFailed =>
          /\ cache_file' = cache_file
          /\ metadata_file' = metadata_file
          /\ IF last_read'.path \in DOMAIN cache_file
             THEN /\ last_read'.outcome = "Ok"
                  /\ last_read'.content = cache_file[last_read'.path]
             ELSE last_read'.outcome = "Err"]_vars

\* the same for the two failures the loader tells apart: no response, and a
\* response with a non-success status
C28_SendFailureFallsBack ==
    [][(FetchFailed /\ last_read'.response # "body") =>
          /\ cache_file' = cache_file
          /\ metadata_file' = metadata_file
          /\ IF last_read'.path \in DOMAIN cache_file
             THEN /\ last_read'.outcome = "Ok"
                  /\ last_read'.content = cache_file[last_read'.path]
             ELSE last_read'.outcome = "Err"]_vars

\* the waits that have returned their value to the event loop
Returned == {id \in TimerIds : waits[id].stage \in {"returned", "resumed"}}

\* a wait whose id op_timerCancel returned true for returns false
C29_CancelledWaitReturnsFalse ==
    \A id \in cancelled \cap Returned : ~waits[id].completed

\* op_timerCancel returns true exactly when it finds the wait pending: false
\* when the wait has not started, has completed or was cancelled before
C29_CancelFindsPendingWait ==
    last_cancel.timer_id # 0 => (last_cancel.result <=> last_cancel.wait = "pending")

\* C29: op_timerWait returns true if its timer completed and false if it was
\* cancelled, and op_timerCancel returns true iff it found a pending wait and
\* cancelled it: under every interleaving of expiry and cancellation, a wait
\* whose id was cancelled with result true returns false, and a cancel that
\* finds no wait registered returns false.
C29_CancelAndWaitAgree ==
    /\ C29_CancelledWaitReturnsFalse
    /\ C29_CancelFindsPendingWait

\* C30: the callback of a setTimeout is never invoked once clearTimeout was
\* called with its id, and the callback of a setInterval is never invoked again
\* once clearInterval was called with its id, whatever the order of completion,
\* cancellation and the registration of the canceller.
C30_ClearedNeverInvoked ==
    [][\A id \in clear_called : invocations'[id] = invocations[id]]_vars

\* a cleared interval that had run its callback once and whose next wait
\* completed all the same
C30_Witness ==
    \E id \in clear_called :
       /\ issued[id] = "interval"
       /\ intervals[id].at = "done"
       /\ waits[intervals[id].currentTimerId].stage = "resumed"
       /\ waits[intervals[id].currentTimerId].completed
       /\ invocations[id] = 1

\* a cleared timeout whose wait completed all the same
C30_ClearedTimeoutCompleted ==
    \E id \in clear_called :
       /\ issued[id] = "timeout"
       /\ waits[id].stage = "resumed"
       /\ waits[id].completed
       /\ invocations[id] = 0

=============================================================================
